---- MODULE Spec2Model ----
(***************************************************************************)
(* Model of the maude terminal client: the Session state machine           *)
(* (src/src/maude/session.py), the JSON-RPC engine GovernorClient          *)
(* (src/src/maude/client/rpc.py), the orchestrator handlers and the two    *)
(* coroutines that drive the engine (src/src/maude/app.py: the input       *)
(* handler and _poll_status), and the framing and life cycle of            *)
(* UnixSocketTransport (src/src/maude/client/transport.py).                *)
(***************************************************************************)
EXTENDS Integers, Sequences, FiniteSets, TLC

(***************************************************************************)
(* Bounds of the model.                                                    *)
(***************************************************************************)
MaxDraftLen == 4
MaxMessages == 2

None == "None"

(***************************************************************************)
(* Session (session.py:13-24).  Text is a sequence of characters.          *)
(***************************************************************************)
PLAN == "PLAN"
BUILD == "BUILD"
Mode == {PLAN, BUILD}

Texts == {<<"a">>, <<"b">>}
TemplateNames == {"architecture", "product"}
TemplateContents == {<<"T">>, <<>>}    \* the text of a template file; a file may be empty
SessionIds == {"s1", "s2"}             \* ids the daemon gives its sessions
Roles == {"user", "assistant"}
ProjectName == "maude"                 \* settings.project_name (app.py:75)

VARIABLES
    mode,                   \* MaudeSession.mode
    spec_locked,            \* MaudeSession.spec_locked
    spec_draft,             \* MaudeSession.spec_draft
    spec_template,          \* MaudeSession.spec_template
    spec_template_content,  \* MaudeSession.spec_template_content
    messages,               \* MaudeSession.messages
    governor_session_id,    \* MaudeSession.governor_session_id
    last_governor_now,      \* MaudeSession.last_governor_now
    project_name,           \* MaudeSession.project_name
    backend_type,           \* MaudeSession.backend_type
    last                    \* the last operation: its name, argument, how it ended, what it returned

sessionVars == <<mode, spec_locked, spec_draft, spec_template, spec_template_content, messages,
                 governor_session_id, last_governor_now, project_name, backend_type>>

VARIABLES
    pending_template,       \* MaudeApp._pending_template
    last_session_list       \* MaudeApp._last_session_list: the ids of the sessions last listed

appVars == <<pending_template, last_session_list>>

VARIABLES
    request_id,          \* GovernorClient._request_id
    cx,                  \* the connection self._reader/self._writer belong to, 0: both None
    conns,               \* every connection opened so far: its StreamReader's buffered frames, eof flag and waiter
    delivered,           \* frames the daemon has sent so far
    last_stream_result,  \* GovernorClient._last_stream_result
    running,             \* the coroutine the event loop is running, None between callbacks
    pc,                  \* per task: idle, read, waiting, woken, done
    at,                  \* per task: the connection whose reader it is suspended in
    cur,                 \* per task: the call in progress
    outcome,             \* per task: how its call ended
    yielded,             \* per task: fragments handed to the consumer, in order
    readLog,             \* per task: what _read_message returned to this call, in order
    assigned,            \* every id _next_id returned, in order
    written,             \* per id assigned: the connection whose writer the request was given to
    closer               \* GovernorClient.close: idle, or closing while it awaits wait_closed()

VARIABLES
    transport            \* a UnixSocketTransport: its reader and writer

engineVars == <<request_id, cx, conns, delivered, last_stream_result, running, pc, at, cur,
                outcome, yielded, readLog, assigned, written, closer>>

Ended(op, arg, how, ret) == [op |-> op, arg |-> arg, outcome |-> how, ret |-> ret]

SessionInit ==
    /\ mode = PLAN
    /\ spec_locked = FALSE
    /\ spec_draft = <<>>
    /\ spec_template = None
    /\ spec_template_content = <<>>
    /\ messages = <<>>
    /\ governor_session_id = None
    /\ last_governor_now = None
    /\ project_name = ProjectName
    /\ backend_type = ""

\* set_mode without its guard
set_mode_unguarded(m) ==
    /\ mode' = m
    /\ last' = Ended("set_mode", m, "ok", None)
    /\ UNCHANGED <<spec_locked, spec_draft, spec_template, spec_template_content, messages>>
    /\ UNCHANGED <<governor_session_id, last_governor_now, project_name, backend_type, appVars,
                   engineVars, transport>>

set_mode(m) ==
    /\ IF m = BUILD /\ ~spec_locked
         THEN /\ last' = Ended("set_mode", m, "ValueError", None)
              /\ UNCHANGED mode
         ELSE /\ mode' = m
              /\ last' = Ended("set_mode", m, "ok", None)
    /\ UNCHANGED <<spec_locked, spec_draft, spec_template, spec_template_content, messages>>
    /\ UNCHANGED <<governor_session_id, last_governor_now, project_name, backend_type, appVars,
                   engineVars, transport>>

\* lock_spec that returns the draft without its final newline
lock_spec_stripped ==
    /\ spec_locked' = TRUE
    /\ last' = Ended("lock_spec", None, "ok",
                     IF spec_draft = <<>> THEN <<>> ELSE SubSeq(spec_draft, 1, Len(spec_draft) - 1))
    /\ UNCHANGED <<mode, spec_draft, spec_template, spec_template_content, messages>>
    /\ UNCHANGED <<governor_session_id, last_governor_now, project_name, backend_type, appVars,
                   engineVars, transport>>

lock_spec ==
    /\ spec_locked' = TRUE
    /\ last' = Ended("lock_spec", None, "ok", spec_draft)
    /\ UNCHANGED <<mode, spec_draft, spec_template, spec_template_content, messages>>
    /\ UNCHANGED <<governor_session_id, last_governor_now, project_name, backend_type, appVars,
                   engineVars, transport>>

unlock_spec ==
    /\ spec_locked' = FALSE
    /\ last' = Ended("unlock_spec", None, "ok", None)
    /\ UNCHANGED <<mode, spec_draft, spec_template, spec_template_content, messages>>
    /\ UNCHANGED <<governor_session_id, last_governor_now, project_name, backend_type, appVars,
                   engineVars, transport>>

\* load_template that starts the draft afresh
load_template_fresh_draft(name, content) ==
    /\ spec_template' = name
    /\ spec_template_content' = content
    /\ spec_draft' = <<>>
    /\ last' = Ended("load_template", <<name, content>>, "ok", None)
    /\ UNCHANGED <<mode, spec_locked, messages>>
    /\ UNCHANGED <<governor_session_id, last_governor_now, project_name, backend_type, appVars,
                   engineVars, transport>>

load_template(name, content) ==
    /\ spec_template' = name
    /\ spec_template_content' = content
    /\ last' = Ended("load_template", <<name, content>>, "ok", None)
    /\ UNCHANGED <<mode, spec_locked, spec_draft, messages>>
    /\ UNCHANGED <<governor_session_id, last_governor_now, project_name, backend_type, appVars,
                   engineVars, transport>>

clear_template ==
    /\ spec_template' = None
    /\ spec_template_content' = <<>>
    /\ last' = Ended("clear_template", None, "ok", None)
    /\ UNCHANGED <<mode, spec_locked, spec_draft, messages>>
    /\ UNCHANGED <<governor_session_id, last_governor_now, project_name, backend_type, appVars,
                   engineVars, transport>>

add_message(role, content) ==
    /\ Len(messages) < MaxMessages
    /\ messages' = Append(messages, [role |-> role, content |-> content])
    /\ last' = Ended("add_message", <<role, content>>, "ok", None)
    /\ UNCHANGED <<mode, spec_locked, spec_draft, spec_template, spec_template_content>>
    /\ UNCHANGED <<governor_session_id, last_governor_now, project_name, backend_type, appVars,
                   engineVars, transport>>

\* self.session.spec_draft += spec_text + "\n"
append_draft(text) ==
    /\ Len(spec_draft) + Len(text) + 1 <= MaxDraftLen
    /\ spec_draft' = spec_draft \o text \o <<"\n">>
    /\ last' = Ended("append_draft", text, "ok", None)
    /\ UNCHANGED <<mode, spec_locked, spec_template, spec_template_content, messages>>
    /\ UNCHANGED <<governor_session_id, last_governor_now, project_name, backend_type, appVars,
                   engineVars, transport>>

(***************************************************************************)
(* Orchestrator handlers of the lock-spec and build commands (app.py).     *)
(* Each mirrors its local change to the daemon inside try/except Exception *)
(* (app.py:252-256, 268-273); sub is how that awaited submission ended.    *)
(* GovernorClient.add_constraint and create_run (rpc.py:497-515) are stubs *)
(* that write no request and return at once, so neither handler suspends   *)
(* and neither touches the engine.                                         *)
(***************************************************************************)
Submissions == {"returned", "raised"}

\* _handle_lock_spec that locks only when the submission went through
handle_lock_spec_atomic(sub) ==
    /\ IF spec_draft = <<>>
         THEN /\ last' = Ended("handle_lock_spec", None, "refused", None)
              /\ UNCHANGED spec_locked
         ELSE /\ spec_locked' = (IF sub = "raised" THEN spec_locked ELSE TRUE)
              /\ last' = Ended("handle_lock_spec", sub, "ok", spec_draft)
    /\ UNCHANGED <<mode, spec_draft, spec_template, spec_template_content, messages>>
    /\ UNCHANGED <<governor_session_id, last_governor_now, project_name, backend_type, appVars,
                   engineVars, transport>>

\* _handle_lock_spec that does not look at the draft
handle_lock_spec_unchecked(sub) ==
    /\ spec_locked' = TRUE
    /\ last' = Ended("handle_lock_spec", sub, "ok", spec_draft)
    /\ UNCHANGED <<mode, spec_draft, spec_template, spec_template_content, messages>>
    /\ UNCHANGED <<governor_session_id, last_governor_now, project_name, backend_type, appVars,
                   engineVars, transport>>

\* _handle_lock_spec, app.py:243-256
handle_lock_spec(sub) ==
    /\ IF spec_draft = <<>>
         THEN /\ last' = Ended("handle_lock_spec", None, "refused", None)
              /\ UNCHANGED spec_locked
         ELSE /\ spec_locked' = TRUE
              /\ last' = Ended("handle_lock_spec", sub, "ok", spec_draft)
    /\ UNCHANGED <<mode, spec_draft, spec_template, spec_template_content, messages>>
    /\ UNCHANGED <<governor_session_id, last_governor_now, project_name, backend_type, appVars,
                   engineVars, transport>>

\* _handle_build that switches mode before looking at the lock
handle_build_unguarded(sub) ==
    /\ mode' = BUILD
    /\ last' = IF ~spec_locked THEN Ended("handle_build", None, "ValueError", None)
                ELSE Ended("handle_build", sub, "ok", spec_draft)
    /\ UNCHANGED <<spec_locked, spec_draft, spec_template, spec_template_content, messages>>
    /\ UNCHANGED <<governor_session_id, last_governor_now, project_name, backend_type, appVars,
                   engineVars, transport>>

\* _handle_build, app.py:258-273: set_mode(BUILD), and on ValueError return
handle_build(sub) ==
    /\ IF ~spec_locked
         THEN /\ last' = Ended("handle_build", None, "ValueError", None)
              /\ UNCHANGED mode
         ELSE /\ mode' = BUILD
              /\ last' = Ended("handle_build", sub, "ok", spec_draft)
    /\ UNCHANGED <<spec_locked, spec_draft, spec_template, spec_template_content, messages>>
    /\ UNCHANGED <<governor_session_id, last_governor_now, project_name, backend_type, appVars,
                   engineVars, transport>>

(***************************************************************************)
(* The chat turn (app.py:420-463).  The handler adds the user turn, builds *)
(* the message list, awaits the chat stream and, when the stream ends      *)
(* without raising, adds the assistant turn and appends the reply to the   *)
(* draft of a template-guided session.  reply is how the stream ended and  *)
(* the concatenation of the fragments it yielded.                          *)
(***************************************************************************)
ChatReplies == {[how |-> "raised", text |-> <<>>], [how |-> "ok", text |-> <<>>],
                [how |-> "ok", text |-> <<"a">>]}

\* system_msg, app.py:430-443
SystemTurn(content, draft) ==
    [role |-> "system",
     content |-> <<"You are helping the user fill out a structured spec template", "## Template">>
                 \o content
                 \o (IF draft # <<>> THEN <<"## Current Draft">> \o draft ELSE <<>>)]

\* messages = list(self.session.messages), and messages.insert(0, system_msg) under
\* "if self.session.spec_template_content", app.py:426-444
ChatRequest(history, content, draft) ==
    IF content # <<>> THEN <<SystemTurn(content, draft)>> \o history ELSE history

\* _handle_chat, app.py:420-463
handle_chat(text, reply) ==
    /\ Len(messages) + (IF reply.how = "ok" THEN 2 ELSE 1) <= MaxMessages
    /\ Len(spec_draft) + Len(reply.text) + 1 <= MaxDraftLen
    /\ LET history == Append(messages, [role |-> "user", content |-> text])
       IN  /\ messages' = IF reply.how = "ok"
                            THEN Append(history, [role |-> "assistant", content |-> reply.text])
                            ELSE history
           /\ spec_draft' = IF reply.how = "ok" /\ spec_template_content # <<>> /\ reply.text # <<>>
                              THEN spec_draft \o reply.text \o <<"\n">>
                              ELSE spec_draft
           /\ last' = Ended("handle_chat",
                            [text |-> text,
                             sent |-> ChatRequest(history, spec_template_content, spec_draft)],
                            reply.how, reply.text)
    /\ UNCHANGED <<mode, spec_locked, spec_template, spec_template_content>>
    /\ UNCHANGED <<governor_session_id, last_governor_now, project_name, backend_type, appVars,
                   engineVars, transport>>

\* action_new_session, app.py:469-481: create_session, and on its result a fresh
\* MaudeSession under the id the daemon returned; created is that id, or "raised"
action_new_session(created) ==
    /\ IF created = "raised"
         THEN /\ last' = Ended("new_session", None, "raised", None)
              /\ UNCHANGED sessionVars
         ELSE /\ mode' = PLAN
              /\ spec_locked' = FALSE
              /\ spec_draft' = <<>>
              /\ spec_template' = None
              /\ spec_template_content' = <<>>
              /\ messages' = <<>>
              /\ governor_session_id' = created
              /\ last_governor_now' = None
              /\ UNCHANGED <<project_name, backend_type>>
              /\ last' = Ended("new_session", None, "ok", created)
    /\ UNCHANGED <<appVars, engineVars, transport>>

(***************************************************************************)
(* RPC engine (rpc.py).  A frame on the wire is one decoded JSON object,   *)
(* modelled as a function from its keys: a notification has no "id" key,   *)
(* a response has one.                                                     *)
(***************************************************************************)
MaxCalls == 2
MaxWire == 3
MaxConns == 2

Tasks == {"main", "poll"}   \* the input handler (app.py:161) and _poll_status (app.py:130)

\* dict.get(k, default)
Get(d, k, default) == IF k \in DOMAIN d THEN d[k] ELSE default

Notifications ==
    {[method |-> "chat.delta", params |-> [content |-> c]] : c \in {"", "a", "b"}}
    \cup {[method |-> "chat.delta"], [method |-> "some.event", params |-> [content |-> "a"]]}

Responses(ids) ==
    {[id |-> i, result |-> "r"] : i \in ids}
    \cup {[id |-> i, error |-> [code |-> -32600, message |-> "Invalid request"]] : i \in ids}

EndOfStream == [eof |-> TRUE]     \* _read_message returned None

NoCall == [kind |-> "none", id |-> 0, method |-> None, notification_method |-> None]
NoOutcome == [type |-> "none", detail |-> <<>>]
Continue == [type |-> "continue", detail |-> <<>>]
ConnectionClosed == [type |-> "ConnectionError", detail |-> <<"Connection closed by daemon">>]
ReaderBusy == [type |-> "RuntimeError", detail |-> <<"called while another coroutine is already waiting for incoming data">>]
NoReader == [type |-> "AttributeError", detail |-> <<"'NoneType' object has no attribute 'readline'">>]
ConnectFailed == [type |-> "OSError", detail |-> <<"connect">>]
ConnectionLost == [type |-> "ConnectionError", detail |-> <<"Connection lost">>]
RpcError(err) == [type |-> "RuntimeError", detail |-> <<"RPC error", Get(err, "code", "?"), Get(err, "message", "?")>>]
Returned(r) == [type |-> "result", detail |-> <<r>>]
StreamEnd == [type |-> "end", detail |-> <<>>]

EngineInit ==
    /\ request_id = 0
    /\ cx = 0
    /\ conns = <<>>
    /\ delivered = 0
    /\ last_stream_result = None
    /\ running = None
    /\ pc = [t \in Tasks |-> "idle"]
    /\ at = [t \in Tasks |-> 0]
    /\ cur = [t \in Tasks |-> NoCall]
    /\ outcome = [t \in Tasks |-> NoOutcome]
    /\ yielded = [t \in Tasks |-> <<>>]
    /\ readLog = [t \in Tasks |-> <<>>]
    /\ assigned = <<>>
    /\ written = <<>>
    /\ closer = "idle"

\* asyncio.open_unix_connection: a StreamReader (buffered frames, eof flag, the one
\* waiting coroutine) and a StreamWriter (closing once its transport was closed)
NewConnection == [buffer |-> <<>>, eof |-> FALSE, waiter |-> None, closing |-> FALSE]

\* _ensure_connected that connects only a client that never connected
NotConnected_OnlyFirst == conns = <<>>

\* self._writer is None or self._writer.is_closing().  End of file on the reader
\* leaves the writer open: asyncio keeps the transport after eof_received.
NotConnected == IF cx = 0 THEN TRUE ELSE conns[cx].closing

\* _next_id that does not advance past 1
NextId_Wraps == (request_id % 1) + 1

\* self._request_id += 1; return self._request_id
NextId == request_id + 1

\* _call and _call_streaming up to the first read: _ensure_connected (connect opens
\* a fresh reader and writer, or fails), _next_id, _write_message.  The step is the
\* moment connect() has returned; a close() that was in progress when the call began
\* has returned by then, hence closer = "idle".
StartCall(t, kind, method) ==
    /\ running = None
    /\ closer = "idle"
    /\ pc[t] \in {"idle", "done"}
    /\ request_id < MaxCalls
    /\ outcome' = [outcome EXCEPT ![t] = NoOutcome]
    /\ yielded' = [yielded EXCEPT ![t] = <<>>]
    /\ readLog' = [readLog EXCEPT ![t] = <<>>]
    /\ IF NotConnected
         THEN /\ Len(conns) < MaxConns
              /\ conns' = Append(conns, NewConnection)
              /\ cx' = Len(conns) + 1
         ELSE UNCHANGED <<conns, cx>>
    /\ request_id' = NextId
    /\ assigned' = Append(assigned, NextId)
    /\ written' = Append(written, cx')
    /\ cur' = [cur EXCEPT ![t] = [kind |-> kind, id |-> NextId, method |-> method,
                                  notification_method |-> IF kind = "stream" THEN "chat.delta" ELSE None]]
    /\ pc' = [pc EXCEPT ![t] = "read"]
    /\ running' = t
    /\ UNCHANGED <<delivered, last_stream_result, at, closer>>
    /\ UNCHANGED <<sessionVars, appVars, last, transport>>

\* _ensure_connected when open_unix_connection raises: nothing is assigned or written
ConnectFails(t) ==
    /\ running = None
    /\ closer = "idle"
    /\ pc[t] \in {"idle", "done"}
    /\ request_id < MaxCalls
    /\ NotConnected
    /\ outcome' = [outcome EXCEPT ![t] = ConnectFailed]
    /\ yielded' = [yielded EXCEPT ![t] = <<>>]
    /\ readLog' = [readLog EXCEPT ![t] = <<>>]
    /\ cur' = [cur EXCEPT ![t] = NoCall]
    /\ pc' = [pc EXCEPT ![t] = "done"]
    /\ UNCHANGED <<request_id, cx, conns, delivered, last_stream_result, running, at, assigned,
                   written, closer>>
    /\ UNCHANGED <<sessionVars, appVars, last, transport>>

\* _call and _call_streaming on a connection whose peer is gone: the writer is still
\* open, so _ensure_connected does not connect; the id is taken; the transport's send
\* fails, which closes the transport, and writer.drain() raises ConnectionResetError.
WriteFails(t, kind, method) ==
    /\ running = None
    /\ closer = "idle"
    /\ pc[t] \in {"idle", "done"}
    /\ request_id < MaxCalls
    /\ ~NotConnected
    /\ conns[cx].eof
    /\ request_id' = NextId
    /\ assigned' = Append(assigned, NextId)
    /\ written' = Append(written, cx)
    /\ conns' = [conns EXCEPT ![cx] = [@ EXCEPT !.closing = TRUE]]
    /\ cur' = [cur EXCEPT ![t] = [kind |-> kind, id |-> NextId, method |-> method,
                                  notification_method |-> IF kind = "stream" THEN "chat.delta" ELSE None]]
    /\ outcome' = [outcome EXCEPT ![t] = ConnectionLost]
    /\ yielded' = [yielded EXCEPT ![t] = <<>>]
    /\ readLog' = [readLog EXCEPT ![t] = <<>>]
    /\ pc' = [pc EXCEPT ![t] = "done"]
    /\ UNCHANGED <<cx, delivered, last_stream_result, running, at, closer>>
    /\ UNCHANGED <<sessionVars, appVars, last, transport>>

(***************************************************************************)
(* What one loop iteration does with the message resp it has read:         *)
(* [next |-> Continue or an outcome, yield |-> fragments handed over].   *)
(***************************************************************************)
\* _call that takes the first response whatever its id
CallStep_AnyId(resp, id) ==
    IF "id" \notin DOMAIN resp THEN [next |-> Continue, yield |-> <<>>]
    ELSE IF "error" \in DOMAIN resp THEN [next |-> RpcError(resp.error), yield |-> <<>>]
    ELSE [next |-> Returned(Get(resp, "result", None)), yield |-> <<>>]

\* _call that returns the result of an error response
CallStep_SwallowsError(resp, id) ==
    IF "id" \notin DOMAIN resp THEN [next |-> Continue, yield |-> <<>>]
    ELSE IF resp.id # id THEN [next |-> Continue, yield |-> <<>>]
    ELSE [next |-> Returned(Get(resp, "result", None)), yield |-> <<>>]

\* _call, rpc.py:170-183
CallStep(resp, id) ==
    IF "id" \notin DOMAIN resp THEN [next |-> Continue, yield |-> <<>>]
    ELSE IF resp.id # id THEN [next |-> Continue, yield |-> <<>>]
    ELSE IF "error" \in DOMAIN resp THEN [next |-> RpcError(resp.error), yield |-> <<>>]
    ELSE [next |-> Returned(Get(resp, "result", None)), yield |-> <<>>]

\* _call_streaming that takes any response for its own
StreamStep_AnyId(resp, id, notification_method) ==
    IF "id" \notin DOMAIN resp
      THEN IF Get(resp, "method", None) = notification_method
                /\ Get(Get(resp, "params", <<>>), "content", "") # ""
             THEN [next |-> Continue, yield |-> <<Get(Get(resp, "params", <<>>), "content", "")>>]
             ELSE [next |-> Continue, yield |-> <<>>]
    ELSE IF "error" \in DOMAIN resp
      THEN [next |-> RpcError(resp.error), yield |-> <<>>]
      ELSE [next |-> StreamEnd, yield |-> <<>>]

\* _call_streaming that yields the content of every notification
StreamStep_AnyMethod(resp, id, notification_method) ==
    IF "id" \notin DOMAIN resp
      THEN IF Get(Get(resp, "params", <<>>), "content", "") # ""
             THEN [next |-> Continue, yield |-> <<Get(Get(resp, "params", <<>>), "content", "")>>]
             ELSE [next |-> Continue, yield |-> <<>>]
    ELSE IF resp.id = id
      THEN IF "error" \in DOMAIN resp
             THEN [next |-> RpcError(resp.error), yield |-> <<>>]
             ELSE [next |-> StreamEnd, yield |-> <<>>]
    ELSE [next |-> Continue, yield |-> <<>>]

\* _call_streaming, rpc.py:214-231
StreamStep(resp, id, notification_method) ==
    IF "id" \notin DOMAIN resp
      THEN IF Get(resp, "method", None) = notification_method
                /\ Get(Get(resp, "params", <<>>), "content", "") # ""
             THEN [next |-> Continue, yield |-> <<Get(Get(resp, "params", <<>>), "content", "")>>]
             ELSE [next |-> Continue, yield |-> <<>>]
    ELSE IF resp.id = id
      THEN IF "error" \in DOMAIN resp
             THEN [next |-> RpcError(resp.error), yield |-> <<>>]
             ELSE [next |-> StreamEnd, yield |-> <<>>]
    ELSE [next |-> Continue, yield |-> <<>>]

Step(c, resp) ==
    IF c.kind = "stream" THEN StreamStep(resp, c.id, c.notification_method)
    ELSE CallStep(resp, c.id)

\* resp is None: the unary call returns None
EndOfStream_ReturnsNone(kind) == IF kind = "call" THEN Returned(None) ELSE ConnectionClosed

\* resp is None: the stream ends as if complete
EndOfStream_EndsStream(kind) == IF kind = "stream" THEN StreamEnd ELSE ConnectionClosed

\* resp is None: raise ConnectionError("Connection closed by daemon")
EndOfStreamOutcome(kind) == ConnectionClosed

\* The call of task t ends with outcome o: the coroutine returns or raises.  The input
\* handler's call hands the loop back; _poll_status goes on in the same callback with
\* what governor_now() returned or raised (app.py:135-139).
Finish(t, o) ==
    /\ outcome' = [outcome EXCEPT ![t] = o]
    /\ pc' = [pc EXCEPT ![t] = "done"]
    /\ running' = IF t = "poll" THEN t ELSE None

\* a read loop that, on the message that ends its call, also takes what is buffered
\* behind it
ReadOn_Drains(t, c, resumed) ==
    LET r == conns[c]
        w == IF resumed THEN None ELSE r.waiter
    IN  IF r.buffer # <<>>
          THEN LET resp == Head(r.buffer)
                   s == Step(cur[t], resp)
               IN  /\ conns' = [conns EXCEPT ![c] =
                                  [r EXCEPT !.buffer = IF s.next = Continue THEN Tail(r.buffer) ELSE <<>>,
                                            !.waiter = w]]
                   /\ readLog' = [readLog EXCEPT ![t] = Append(@, resp)]
                   /\ yielded' = [yielded EXCEPT ![t] = @ \o s.yield]
                   /\ IF s.next = Continue
                        THEN /\ pc' = [pc EXCEPT ![t] = "read"]
                             /\ running' = t
                             /\ UNCHANGED <<outcome, last_stream_result>>
                        ELSE /\ Finish(t, s.next)
                             /\ last_stream_result' =
                                    IF s.next = StreamEnd THEN Get(resp, "result", None)
                                    ELSE last_stream_result
                   /\ UNCHANGED at
        ELSE IF r.eof
          THEN /\ conns' = [conns EXCEPT ![c] = [r EXCEPT !.waiter = w]]
               /\ readLog' = [readLog EXCEPT ![t] = Append(@, EndOfStream)]
               /\ Finish(t, EndOfStreamOutcome(cur[t].kind))
               /\ UNCHANGED <<yielded, last_stream_result, at>>
        ELSE IF w # None
          THEN /\ Finish(t, ReaderBusy)
               /\ UNCHANGED <<conns, readLog, yielded, last_stream_result, at>>
        ELSE /\ conns' = [conns EXCEPT ![c] = [r EXCEPT !.waiter = t]]
             /\ pc' = [pc EXCEPT ![t] = "waiting"]
             /\ at' = [at EXCEPT ![t] = c]
             /\ running' = None
             /\ UNCHANGED <<outcome, readLog, yielded, last_stream_result>>

\* a streaming loop that reads ahead: with two buffered frames that both leave the
\* loop running, it reads both before it hands over what the first carried
ReadOn_ReadAhead(t, c, resumed) ==
    LET r == conns[c]
        w == IF resumed THEN None ELSE r.waiter
        ahead == IF Len(r.buffer) >= 2
                   THEN /\ Step(cur[t], r.buffer[1]).next = Continue
                        /\ Step(cur[t], r.buffer[2]).next = Continue
                   ELSE FALSE
    IN  IF ahead
          THEN /\ conns' = [conns EXCEPT ![c] = [r EXCEPT !.buffer = Tail(Tail(r.buffer)), !.waiter = w]]
               /\ readLog' = [readLog EXCEPT ![t] = @ \o SubSeq(r.buffer, 1, 2)]
               /\ yielded' = [yielded EXCEPT ![t] = @ \o Step(cur[t], r.buffer[1]).yield
                                                      \o Step(cur[t], r.buffer[2]).yield]
               /\ pc' = [pc EXCEPT ![t] = "read"]
               /\ running' = t
               /\ UNCHANGED <<outcome, last_stream_result, at>>
        ELSE IF r.buffer # <<>>
          THEN LET resp == Head(r.buffer)
                   s == Step(cur[t], resp)
               IN  /\ conns' = [conns EXCEPT ![c] = [r EXCEPT !.buffer = Tail(r.buffer), !.waiter = w]]
                   /\ readLog' = [readLog EXCEPT ![t] = Append(@, resp)]
                   /\ yielded' = [yielded EXCEPT ![t] = @ \o s.yield]
                   /\ IF s.next = Continue
                        THEN /\ pc' = [pc EXCEPT ![t] = "read"]
                             /\ running' = t
                             /\ UNCHANGED <<outcome, last_stream_result>>
                        ELSE /\ Finish(t, s.next)
                             /\ last_stream_result' =
                                    IF s.next = StreamEnd THEN Get(resp, "result", None)
                                    ELSE last_stream_result
                   /\ UNCHANGED at
        ELSE IF r.eof
          THEN /\ conns' = [conns EXCEPT ![c] = [r EXCEPT !.waiter = w]]
               /\ readLog' = [readLog EXCEPT ![t] = Append(@, EndOfStream)]
               /\ Finish(t, EndOfStreamOutcome(cur[t].kind))
               /\ UNCHANGED <<yielded, last_stream_result, at>>
        ELSE IF w # None
          THEN /\ Finish(t, ReaderBusy)
               /\ UNCHANGED <<conns, readLog, yielded, last_stream_result, at>>
        ELSE /\ conns' = [conns EXCEPT ![c] = [r EXCEPT !.waiter = t]]
             /\ pc' = [pc EXCEPT ![t] = "waiting"]
             /\ at' = [at EXCEPT ![t] = c]
             /\ running' = None
             /\ UNCHANGED <<outcome, readLog, yielded, last_stream_result>>

\* resp = await _read_message(reader) on connection c, and the loop body on resp.
\* reader is an asyncio.StreamReader: with a whole frame buffered the read does not
\* suspend; at end of file it returns None; with nothing buffered it suspends as the
\* reader's one waiter, and raises RuntimeError when another coroutine already waits.
\* A task resuming from its wait first leaves StreamReader._wait_for_data, which
\* resets the reader's waiter whoever set it.
ReadOn(t, c, resumed) ==
    LET r == conns[c]
        w == IF resumed THEN None ELSE r.waiter
    IN  IF r.buffer # <<>>
          THEN LET resp == Head(r.buffer)
                   s == Step(cur[t], resp)
               IN  /\ conns' = [conns EXCEPT ![c] = [r EXCEPT !.buffer = Tail(r.buffer), !.waiter = w]]
                   /\ readLog' = [readLog EXCEPT ![t] = Append(@, resp)]
                   /\ yielded' = [yielded EXCEPT ![t] = @ \o s.yield]
                   /\ IF s.next = Continue
                        THEN /\ pc' = [pc EXCEPT ![t] = "read"]
                             /\ running' = t
                             /\ UNCHANGED <<outcome, last_stream_result>>
                        ELSE /\ Finish(t, s.next)
                             /\ last_stream_result' =
                                    IF s.next = StreamEnd THEN Get(resp, "result", None)
                                    ELSE last_stream_result
                   /\ UNCHANGED at
        ELSE IF r.eof
          THEN /\ conns' = [conns EXCEPT ![c] = [r EXCEPT !.waiter = w]]
               /\ readLog' = [readLog EXCEPT ![t] = Append(@, EndOfStream)]
               /\ Finish(t, EndOfStreamOutcome(cur[t].kind))
               /\ UNCHANGED <<yielded, last_stream_result, at>>
        ELSE IF w # None
          THEN /\ Finish(t, ReaderBusy)
               /\ UNCHANGED <<conns, readLog, yielded, last_stream_result, at>>
        ELSE /\ conns' = [conns EXCEPT ![c] = [r EXCEPT !.waiter = t]]
             /\ pc' = [pc EXCEPT ![t] = "waiting"]
             /\ at' = [at EXCEPT ![t] = c]
             /\ running' = None
             /\ UNCHANGED <<outcome, readLog, yielded, last_stream_result>>

\* The next loop iteration of the running call: it reads from self._reader.
Read(t) ==
    /\ running = t
    /\ pc[t] = "read"
    /\ IF cx = 0
         THEN /\ Finish(t, NoReader)
              /\ UNCHANGED <<conns, readLog, yielded, last_stream_result, at>>
         ELSE ReadOn(t, cx, FALSE)
    /\ UNCHANGED <<request_id, cx, delivered, cur, assigned, written, closer>>
    /\ UNCHANGED <<sessionVars, appVars, last, transport>>

\* The event loop resumes a call whose reader was woken.
Resume(t) ==
    /\ running = None
    /\ pc[t] = "woken"
    /\ ReadOn(t, at[t], TRUE)
    /\ UNCHANGED <<request_id, cx, delivered, cur, assigned, written, closer>>
    /\ UNCHANGED <<sessionVars, appVars, last, transport>>

\* a reader that does not wake its waiter
Woken_Nobody(c) == pc

\* StreamReader._wakeup_waiter on connection c
Woken(c) ==
    LET w == conns[c].waiter
    IN  IF w = None THEN pc ELSE [pc EXCEPT ![w] = "woken"]

\* feed_data that also files the frame in the session's history
Deliver_IntoHistory(resp) ==
    /\ running = None
    /\ cx # 0
    /\ ~conns[cx].eof
    /\ delivered < MaxWire
    /\ delivered' = delivered + 1
    /\ conns' = [conns EXCEPT ![cx] = [@ EXCEPT !.buffer = Append(@, resp), !.waiter = None]]
    /\ pc' = Woken(cx)
    /\ messages' = Append(messages, [role |-> "assistant", content |-> <<"a">>])
    /\ UNCHANGED <<request_id, cx, last_stream_result, running, at, cur, outcome, yielded,
                   readLog, assigned, written, closer>>
    /\ UNCHANGED <<mode, spec_locked, spec_draft, spec_template, spec_template_content,
                   governor_session_id, last_governor_now, project_name, backend_type,
                   appVars, last, transport>>

\* The daemon sends a frame: feed_data buffers it and wakes the waiter.
Deliver(resp) ==
    /\ running = None
    /\ cx # 0
    /\ ~conns[cx].eof
    /\ delivered < MaxWire
    /\ delivered' = delivered + 1
    /\ conns' = [conns EXCEPT ![cx] = [@ EXCEPT !.buffer = Append(@, resp), !.waiter = None]]
    /\ pc' = Woken(cx)
    /\ UNCHANGED <<request_id, cx, last_stream_result, running, at, cur, outcome, yielded,
                   readLog, assigned, written, closer>>
    /\ UNCHANGED <<sessionVars, appVars, last, transport>>

\* The daemon ends the stream: feed_eof wakes the waiter; the writer stays open.
DaemonEOF ==
    /\ running = None
    /\ cx # 0
    /\ ~conns[cx].eof
    /\ conns' = [conns EXCEPT ![cx] = [@ EXCEPT !.eof = TRUE, !.waiter = None]]
    /\ pc' = Woken(cx)
    /\ UNCHANGED <<request_id, cx, delivered, last_stream_result, running, at, cur, outcome,
                   yielded, readLog, assigned, written, closer>>
    /\ UNCHANGED <<sessionVars, appVars, last, transport>>

\* close that closes the writer and leaves the reader as it is
Close_LeavesReader ==
    /\ running = None
    /\ closer = "idle"
    /\ IF cx # 0
         THEN /\ conns' = [conns EXCEPT ![cx] = [@ EXCEPT !.closing = TRUE]]
              /\ closer' = "closing"
         ELSE UNCHANGED <<conns, closer>>
    /\ UNCHANGED <<request_id, cx, delivered, last_stream_result, running, pc, at, cur, outcome,
                   yielded, readLog, assigned, written>>
    /\ UNCHANGED <<sessionVars, appVars, last, transport>>

\* GovernorClient.close up to await self._writer.wait_closed() (rpc.py:128-133):
\* writer.close() closes the transport, whose connection_lost feeds end of file to
\* the reader and wakes its waiter.  With self._writer None close does nothing.
Close ==
    /\ running = None
    /\ closer = "idle"
    /\ IF cx # 0
         THEN /\ conns' = [conns EXCEPT ![cx] = [@ EXCEPT !.eof = TRUE, !.waiter = None,
                                                         !.closing = TRUE]]
              /\ pc' = Woken(cx)
              /\ closer' = "closing"
         ELSE UNCHANGED <<conns, pc, closer>>
    /\ UNCHANGED <<request_id, cx, delivered, last_stream_result, running, at, cur, outcome,
                   yielded, readLog, assigned, written>>
    /\ UNCHANGED <<sessionVars, appVars, last, transport>>

\* close that returns with the closed writer still in place
CloseDone_KeepsWriter ==
    /\ running = None
    /\ closer = "closing"
    /\ \A t \in Tasks : ~(pc[t] = "woken" /\ at[t] = cx)
    /\ closer' = "idle"
    /\ UNCHANGED <<request_id, cx, conns, delivered, last_stream_result, running, pc, at, cur,
                   outcome, yielded, readLog, assigned, written>>
    /\ UNCHANGED <<sessionVars, appVars, last, transport>>

\* GovernorClient.close resuming from wait_closed() (rpc.py:136-137): self._writer = None,
\* self._reader = None.  The event loop runs its ready callbacks in the order they were
\* scheduled, and connection_lost wakes the reader's waiter before it wakes close.
CloseDone ==
    /\ running = None
    /\ closer = "closing"
    /\ \A t \in Tasks : ~(pc[t] = "woken" /\ at[t] = cx)
    /\ cx' = 0
    /\ closer' = "idle"
    /\ UNCHANGED <<request_id, conns, delivered, last_stream_result, running, pc, at, cur,
                   outcome, yielded, readLog, assigned, written>>
    /\ UNCHANGED <<sessionVars, appVars, last, transport>>

(***************************************************************************)
(* Framing (rpc.py:31-59, transport.py:56-89).  The byte stream is a       *)
(* sequence of chunks: a header line with its terminator, the blank line   *)
(* "\r\n", the bytes of a line cut off before its terminator, and the      *)
(* bytes of a body, one chunk each.                                        *)
(***************************************************************************)
MaxFrames == 2      \* frames the daemon sends on one connection
MaxOut == 1         \* messages written on one connection

ContentLength(n) == [line |-> "header", key |-> "Content-Length", value |-> n]
OtherHeader == [line |-> "header", key |-> "Content-Type", value |-> 0]
Blank == [line |-> "blank"]
Partial == [line |-> "partial"]
Byte(b) == [byte |-> b]
IsByte(c) == "byte" \in DOMAIN c

\* The messages on the transport: a request as _call writes it (params or {}), a
\* response with an empty result, a response with a result, a notification
WireMessages ==
    {[jsonrpc |-> "2.0", method |-> "governor.now", id |-> 1, params |-> <<>>],
     [jsonrpc |-> "2.0", id |-> 1, result |-> <<>>],
     [id |-> 2, result |-> [status |-> "ok"]],
     [jsonrpc |-> "2.0", method |-> "chat.delta", params |-> [content |-> "a"]]}

\* JSON text, one chunk per token: punctuation, a string, a number
Punct(c) == [p |-> c]
Str(x) == [s |-> x]
Num(n) == [n |-> n]
IsPunct(t, c) == IF "p" \in DOMAIN t THEN t.p = c ELSE FALSE

\* json.dumps writes the members of a dict in the order of its keys and each value by
\* its type; the type of a value is told here by its key.
KeyOrder == <<"jsonrpc", "method", "id", "params", "result", "error", "code", "message",
              "content", "status">>
ObjectKeys == {"params", "result", "error"}
NumberKeys == {"id", "code"}

RECURSIVE Serialize(_)
RECURSIVE Members(_, _, _)
\* the members of d under the keys KeyOrder[i], KeyOrder[i+1], ...
Members(d, i, first) ==
    IF i > Len(KeyOrder) THEN <<>>
    ELSE IF KeyOrder[i] \notin DOMAIN d THEN Members(d, i + 1, first)
    ELSE (IF first THEN <<>> ELSE <<Punct(",")>>)
         \o <<Str(KeyOrder[i]), Punct(":")>>
         \o (IF KeyOrder[i] \in ObjectKeys THEN Serialize(d[KeyOrder[i]])
             ELSE IF KeyOrder[i] \in NumberKeys THEN <<Num(d[KeyOrder[i]])>>
             ELSE <<Str(d[KeyOrder[i]])>>)
         \o Members(d, i + 1, FALSE)

\* json.dumps(msg)
Serialize(d) == <<Punct("{")>> \o Members(d, 1, TRUE) \o <<Punct("}")>>

\* json.loads, by recursive descent: [ok, value, rest of the text]
Malformed == [ok |-> FALSE, value |-> <<>>, rest |-> <<>>]
RECURSIVE ParseObject(_)
RECURSIVE ParseMembers(_, _)
\* text starts at a key; acc holds the members read so far
ParseMembers(text, acc) ==
    IF Len(text) < 3 THEN Malformed
    ELSE IF "s" \notin DOMAIN text[1] THEN Malformed
    ELSE IF ~IsPunct(text[2], ":") THEN Malformed
    ELSE LET v == IF IsPunct(text[3], "{") THEN ParseObject(SubSeq(text, 3, Len(text)))
                  ELSE IF "p" \in DOMAIN text[3] THEN Malformed
                  ELSE [ok |-> TRUE,
                        value |-> IF "s" \in DOMAIN text[3] THEN text[3].s ELSE text[3].n,
                        rest |-> SubSeq(text, 4, Len(text))]
         IN  IF ~v.ok THEN Malformed
             ELSE IF v.rest = <<>> THEN Malformed
             ELSE IF IsPunct(Head(v.rest), "}")
               THEN [ok |-> TRUE, value |-> (text[1].s :> v.value) @@ acc, rest |-> Tail(v.rest)]
             ELSE IF IsPunct(Head(v.rest), ",")
               THEN ParseMembers(Tail(v.rest), (text[1].s :> v.value) @@ acc)
             ELSE Malformed

ParseObject(text) ==
    IF Len(text) < 2 THEN Malformed
    ELSE IF ~IsPunct(text[1], "{") THEN Malformed
    ELSE IF IsPunct(text[2], "}") THEN [ok |-> TRUE, value |-> <<>>, rest |-> SubSeq(text, 3, Len(text))]
    ELSE ParseMembers(Tail(text), <<>>)

\* json.loads(body): the object, or JSONDecodeError
Parse(text) ==
    IF ParseObject(text).ok /\ ParseObject(text).rest = <<>>
      THEN [how |-> "ok", ret |-> ParseObject(text).value]
      ELSE [how |-> "JSONDecodeError", ret |-> None]

\* _write_message that declares a length one short of the body
Encode_ShortLength(m) ==
    <<ContentLength(Len(Serialize(m)) - 1), Blank>> \o [i \in 1..Len(Serialize(m)) |-> Byte(Serialize(m)[i])]

\* _write_message: "Content-Length: <len>\r\n\r\n" and the body
Encode(m) ==
    <<ContentLength(Len(Serialize(m))), Blank>> \o [i \in 1..Len(Serialize(m)) |-> Byte(Serialize(m)[i])]

\* the bytes at the head of stream s, up to the first line chunk
RECURSIVE LeadingBytes(_)
LeadingBytes(s) ==
    IF s = <<>> \/ ~IsByte(Head(s)) THEN <<>> ELSE <<Head(s).byte>> \o LeadingBytes(Tail(s))

\* reader.readline() and the header loop: cl is headers.get("Content-Length"), -1 for
\* absent.  At end of file readline returns b"" and the message read is None; a line
\* that is not blank and has no "Key: Value" form is skipped; body bytes met where a
\* line is expected run into the line that follows them and are skipped with it.
RECURSIVE ReadHeaders(_, _)
ReadHeaders(s, cl) ==
    IF s = <<>> THEN [status |-> "eof", cl |-> cl, rest |-> <<>>]
    ELSE IF IsByte(Head(s))
      THEN LET after == SubSeq(s, Len(LeadingBytes(s)) + 1, Len(s))
           IN  ReadHeaders(IF after = <<>> THEN <<>> ELSE Tail(after), cl)
    ELSE IF Head(s).line = "blank" THEN [status |-> "block", cl |-> cl, rest |-> Tail(s)]
    ELSE IF Head(s).line = "header" /\ Head(s).key = "Content-Length"
      THEN ReadHeaders(Tail(s), Head(s).value)
    ELSE ReadHeaders(Tail(s), cl)

\* read_message that fails when the stream ends inside a header block
ReadMessage_StrictHeaders(s) ==
    LET h == ReadHeaders(s, -1)
    IN  IF h.status = "eof"
          THEN IF s = <<>> THEN [how |-> "ok", ret |-> EndOfStream, rest |-> <<>>]
               ELSE [how |-> "IncompleteReadError", ret |-> None, rest |-> <<>>]
        ELSE IF h.cl = -1 THEN [how |-> "ok", ret |-> EndOfStream, rest |-> h.rest]
        ELSE IF Len(LeadingBytes(h.rest)) < h.cl
          THEN [how |-> "IncompleteReadError", ret |-> None, rest |-> <<>>]
        ELSE Parse(SubSeq(LeadingBytes(h.rest), 1, h.cl))
                 @@ [rest |-> SubSeq(h.rest, h.cl + 1, Len(h.rest))]

\* _read_message / UnixSocketTransport.read_message on a stream s that ends after its
\* last chunk: what it returns or raises, and what is left unread.
ReadMessage(s) ==
    LET h == ReadHeaders(s, -1)
    IN  IF h.status = "eof" THEN [how |-> "ok", ret |-> EndOfStream, rest |-> <<>>]
        ELSE IF h.cl = -1 THEN [how |-> "ok", ret |-> EndOfStream, rest |-> h.rest]
        ELSE IF Len(LeadingBytes(h.rest)) < h.cl
          THEN [how |-> "IncompleteReadError", ret |-> None, rest |-> <<>>]
        ELSE Parse(SubSeq(LeadingBytes(h.rest), 1, h.cl))
                 @@ [rest |-> SubSeq(h.rest, h.cl + 1, Len(h.rest))]

\* What the daemon sends for one message: the frame, the frame with a header more,
\* and the frame with no length header
Framings(m) ==
    {Encode(m), <<OtherHeader>> \o Encode(m), <<OtherHeader>> \o Tail(Encode(m))}

\* The frames the daemon sends: every message framed, one of them also in the other ways
DaemonFrames ==
    {Encode(m) : m \in WireMessages} \cup Framings([jsonrpc |-> "2.0", id |-> 1, result |-> <<>>])

RECURSIVE FrameSeqs(_)
FrameSeqs(n) ==
    IF n = 0 THEN {<<>>}
    ELSE FrameSeqs(n - 1) \cup {s \o f : s \in FrameSeqs(n - 1), f \in DaemonFrames}

\* Everything the daemon may have sent when it closes: whole frames, then possibly a
\* frame cut off after any chunk or inside a line
Streams ==
    LET whole == FrameSeqs(MaxFrames)
        cut == UNION {{SubSeq(s, 1, k) : k \in 0..Len(s)} : s \in whole}
    IN  cut
        \cup {Append(SubSeq(s, 1, Len(s) - 1), Partial) : s \in {c \in cut : c # <<>> /\ ~IsByte(c[Len(c)])}}

(***************************************************************************)
(* UnixSocketTransport (transport.py:27-89), driven by one caller that     *)
(* awaits each operation.  open: _reader and _writer are set; closing:     *)
(* the writer's transport was closed under it; inbound: what the reader    *)
(* has still to hand out before end of file; outbound: the messages        *)
(* written; generation: the connections opened so far.                     *)
(***************************************************************************)
NoTransport == [open |-> FALSE, closing |-> FALSE, inbound |-> <<>>, outbound |-> <<>>]

TransportInit == transport = NoTransport @@ [generation |-> 0]

\* UnixSocketTransport.connected
Connected(tr) == tr.open /\ ~tr.closing

tr_connect(stream) ==
    /\ transport.generation < MaxConns
    /\ transport' = [open |-> TRUE, closing |-> FALSE, inbound |-> stream, outbound |-> <<>>,
                     generation |-> transport.generation + 1]
    /\ last' = Ended("connect", None, "ok", None)
    /\ UNCHANGED <<sessionVars, appVars, engineVars>>

\* open_unix_connection raises: nothing is assigned
tr_connect_fails ==
    /\ last' = Ended("connect", None, "OSError", None)
    /\ UNCHANGED <<sessionVars, appVars, engineVars, transport>>

\* close without the test of self._writer
tr_close_unchecked ==
    /\ IF transport.open
         THEN /\ transport' = NoTransport @@ [generation |-> transport.generation]
              /\ last' = Ended("close", None, "ok", None)
         ELSE /\ last' = Ended("close", None, "AttributeError", None)
              /\ UNCHANGED transport
    /\ UNCHANGED <<sessionVars, appVars, engineVars>>

\* UnixSocketTransport.close, transport.py:45-54
tr_close ==
    /\ IF transport.open
         THEN transport' = NoTransport @@ [generation |-> transport.generation]
         ELSE UNCHANGED transport
    /\ last' = Ended("close", None, "ok", None)
    /\ UNCHANGED <<sessionVars, appVars, engineVars>>

\* read_message without the test of self._reader
tr_read_message_unchecked ==
    /\ IF ~transport.open
         THEN /\ last' = Ended("read_message", None, "AttributeError", None)
              /\ UNCHANGED transport
       ELSE IF transport.closing
         THEN /\ last' = Ended("read_message", None, "ConnectionError", None)
              /\ UNCHANGED transport
       ELSE LET r == ReadMessage(transport.inbound)
            IN  /\ last' = Ended("read_message", None, r.how, r.ret)
                /\ transport' = [transport EXCEPT !.inbound = r.rest]
    /\ UNCHANGED <<sessionVars, appVars, engineVars>>

\* UnixSocketTransport.read_message, transport.py:56-79.  A reader whose transport
\* failed holds that exception and raises it from readline.
tr_read_message ==
    /\ IF ~transport.open
         THEN /\ last' = Ended("read_message", None, "ConnectionError", None)
              /\ UNCHANGED transport
       ELSE IF transport.closing
         THEN /\ last' = Ended("read_message", None, "ConnectionError", None)
              /\ UNCHANGED transport
       ELSE LET r == ReadMessage(transport.inbound)
            IN  /\ last' = Ended("read_message", None, r.how, r.ret)
                /\ transport' = [transport EXCEPT !.inbound = r.rest]
    /\ UNCHANGED <<sessionVars, appVars, engineVars>>

\* UnixSocketTransport.write_message, transport.py:81-89.  sent: whether the socket
\* took the bytes; when the peer is gone the send fails, the transport closes and
\* drain() raises ConnectionResetError, as it does on every later write.
tr_write_message(m, sent) ==
    /\ IF ~transport.open
         THEN /\ last' = Ended("write_message", m, "ConnectionError", None)
              /\ UNCHANGED transport
       ELSE IF transport.closing \/ ~sent
         THEN /\ last' = Ended("write_message", m, "ConnectionError", None)
              /\ transport' = [transport EXCEPT !.closing = TRUE]
       ELSE /\ Len(transport.outbound) < MaxOut
            /\ last' = Ended("write_message", m, "ok", None)
            /\ transport' = [transport EXCEPT !.outbound = Append(@, Encode(m))]
    /\ UNCHANGED <<sessionVars, appVars, engineVars>>

(***************************************************************************)
(* Intent classifier (intents.py).  A text is a sequence of characters.    *)
(* The rule list of intents.py holds eleven kinds; the orchestrator        *)
(* (app.py:181-209) and tests/test_intents.py also use the kinds           *)
(* PLAN_TEMPLATE, CLEAR_TEMPLATE, SESSIONS, SWITCH_SESSION and             *)
(* DELETE_SESSION, whose rules are taken from section 4.5 of the design.   *)
(***************************************************************************)
ToLower ==
    ("A" :> "a") @@ ("B" :> "b") @@ ("C" :> "c") @@ ("D" :> "d") @@ ("E" :> "e") @@ ("F" :> "f")
    @@ ("G" :> "g") @@ ("H" :> "h") @@ ("I" :> "i") @@ ("J" :> "j") @@ ("K" :> "k") @@ ("L" :> "l")
    @@ ("M" :> "m") @@ ("N" :> "n") @@ ("O" :> "o") @@ ("P" :> "p") @@ ("Q" :> "q") @@ ("R" :> "r")
    @@ ("S" :> "s") @@ ("T" :> "t") @@ ("U" :> "u") @@ ("V" :> "v") @@ ("W" :> "w") @@ ("X" :> "x")
    @@ ("Y" :> "y") @@ ("Z" :> "z")
Letters == {ToLower[u] : u \in DOMAIN ToLower}
Digits == {"0", "1", "2", "3", "4", "5", "6", "7", "8", "9"}

\* re.IGNORECASE compares characters by their lower case
LowerChar(c) == IF c \in DOMAIN ToLower THEN ToLower[c] ELSE c
Lower(text) == [i \in 1..Len(text) |-> LowerChar(text[i])]
UpperChar(c) == IF c \in Letters THEN CHOOSE u \in DOMAIN ToLower : ToLower[u] = c ELSE c
Upper(text) == [i \in 1..Len(text) |-> UpperChar(text[i])]

IsSpace(c) == c \in {" ", "\t"}
\* \w
IsWordChar(c) == LowerChar(c) \in Letters \cup Digits \cup {"_"}

RECURSIVE LStrip(_)
LStrip(text) == IF text = <<>> THEN <<>> ELSE IF IsSpace(Head(text)) THEN LStrip(Tail(text)) ELSE text
RECURSIVE RStrip(_)
RStrip(text) ==
    IF text = <<>> THEN <<>>
    ELSE IF IsSpace(text[Len(text)]) THEN RStrip(SubSeq(text, 1, Len(text) - 1)) ELSE text

\* s.startswith(p)
IsPrefix(p, s) == IF Len(p) <= Len(s) THEN SubSeq(s, 1, Len(p)) = p ELSE FALSE

\* strip that leaves trailing whitespace
Strip_LeadingOnly(text) == LStrip(text)

\* text.strip()
Strip(text) == RStrip(LStrip(text))

\* The literal texts of the patterns of _PATTERNS
Literal ==
    [plan |-> <<"p", "l", "a", "n">>,
     let_s_plan |-> <<"l", "e", "t", "'", "s", " ", "p", "l", "a", "n">>,
     lets_plan |-> <<"l", "e", "t", "s", " ", "p", "l", "a", "n">>,
     lock_spec |-> <<"l", "o", "c", "k", " ", "s", "p", "e", "c">>,
     freeze_spec |-> <<"f", "r", "e", "e", "z", "e", " ", "s", "p", "e", "c">>,
     build |-> <<"b", "u", "i", "l", "d">>,
     implement |-> <<"i", "m", "p", "l", "e", "m", "e", "n", "t">>,
     do_it |-> <<"d", "o", " ", "i", "t">>,
     show_spec |-> <<"s", "h", "o", "w", " ", "s", "p", "e", "c">>,
     spec |-> <<"s", "p", "e", "c">>,
     show_diff |-> <<"s", "h", "o", "w", " ", "d", "i", "f", "f">>,
     diff |-> <<"d", "i", "f", "f">>,
     apply |-> <<"a", "p", "p", "l", "y">>,
     merge |-> <<"m", "e", "r", "g", "e">>,
     rollback |-> <<"r", "o", "l", "l", "b", "a", "c", "k">>,
     undo |-> <<"u", "n", "d", "o">>,
     why |-> <<"w", "h", "y">>,
     blocked |-> <<"b", "l", "o", "c", "k", "e", "d">>,
     status |-> <<"s", "t", "a", "t", "u", "s">>,
     state |-> <<"s", "t", "a", "t", "e">>,
     help |-> <<"h", "e", "l", "p">>,
     question |-> <<"?">>]

\* The template aliases (app.py:23-30)
Alias ==
    [architecture |-> <<"a", "r", "c", "h", "i", "t", "e", "c", "t", "u", "r", "e">>,
     arch |-> <<"a", "r", "c", "h">>,
     product |-> <<"p", "r", "o", "d", "u", "c", "t">>,
     product_design |-> <<"p", "r", "o", "d", "u", "c", "t", " ", "d", "e", "s", "i", "g", "n">>,
     requirements |-> <<"r", "e", "q", "u", "i", "r", "e", "m", "e", "n", "t", "s">>,
     reqs |-> <<"r", "e", "q", "s">>]

\* The keywords of the session and template commands
Command ==
    [switch |-> <<"s", "w", "i", "t", "c", "h">>,
     session |-> <<"s", "e", "s", "s", "i", "o", "n">>,
     resume |-> <<"r", "e", "s", "u", "m", "e">>,
     delete_session |-> <<"d", "e", "l", "e", "t", "e", " ", "s", "e", "s", "s", "i", "o", "n">>,
     rm_session |-> <<"r", "m", " ", "s", "e", "s", "s", "i", "o", "n">>,
     sessions |-> <<"s", "e", "s", "s", "i", "o", "n", "s">>,
     list_sessions |-> <<"l", "i", "s", "t", " ", "s", "e", "s", "s", "i", "o", "n", "s">>,
     ls |-> <<"l", "s">>,
     clear_template |-> <<"c", "l", "e", "a", "r", " ", "t", "e", "m", "p", "l", "a", "t", "e">>]

\* IntentKind, intents.py:8-19
IntentKinds == {"PLAN", "LOCK_SPEC", "BUILD", "SHOW_SPEC", "SHOW_DIFF", "APPLY", "ROLLBACK", "WHY",
                "STATUS", "HELP", "CHAT"}
\* the kinds app.py:185-205 dispatches on besides
CommandKinds == {"PLAN_TEMPLATE", "CLEAR_TEMPLATE", "SESSIONS", "SWITCH_SESSION", "DELETE_SESSION"}

\* One rule: a pattern "^literal tail" for each of its literals, and a kind.  The tail
\* is "$", "\\b", or "ref" for whitespace and one word up to the end.
Rule(kind, literals, tail) == [kind |-> kind, literals |-> literals, tail |-> tail]

\* _PATTERNS, intents.py:28-50
Patterns ==
    <<Rule("PLAN", {Literal.plan}, "\\b"),
      Rule("PLAN", {Literal.let_s_plan, Literal.lets_plan}, "\\b"),
      Rule("LOCK_SPEC", {Literal.lock_spec}, "$"),
      Rule("LOCK_SPEC", {Literal.freeze_spec}, "$"),
      Rule("BUILD", {Literal.build}, "$"),
      Rule("BUILD", {Literal.implement}, "$"),
      Rule("BUILD", {Literal.do_it}, "$"),
      Rule("SHOW_SPEC", {Literal.show_spec}, "$"),
      Rule("SHOW_SPEC", {Literal.spec}, "$"),
      Rule("SHOW_DIFF", {Literal.show_diff}, "$"),
      Rule("SHOW_DIFF", {Literal.diff}, "$"),
      Rule("APPLY", {Literal.apply}, "$"),
      Rule("APPLY", {Literal.merge}, "$"),
      Rule("ROLLBACK", {Literal.rollback}, "$"),
      Rule("ROLLBACK", {Literal.undo}, "$"),
      Rule("WHY", {Literal.why}, "\\b"),
      Rule("WHY", {Literal.blocked}, "$"),
      Rule("STATUS", {Literal.status}, "$"),
      Rule("STATUS", {Literal.state}, "$"),
      Rule("HELP", {Literal.help}, "$"),
      Rule("HELP", {Literal.question}, "$")>>

Aliases == {Alias[k] : k \in DOMAIN Alias}

\* The template-planning rule, which goes before the rules of _PATTERNS
TemplateRules ==
    <<Rule("PLAN_TEMPLATE", {Literal.plan \o <<" ">> \o a : a \in Aliases}, "$")>>

\* The session and template commands
SessionRules ==
    <<Rule("CLEAR_TEMPLATE", {Command.clear_template}, "$"),
      Rule("SESSIONS", {Command.sessions, Command.list_sessions, Command.ls}, "$"),
      Rule("SWITCH_SESSION", {Command.switch, Command.session, Command.resume}, "ref"),
      Rule("DELETE_SESSION", {Command.delete_session, Command.rm_session}, "ref")>>

Rules == TemplateRules \o Patterns \o SessionRules

\* the last word of text
RECURSIVE LastWord(_)
LastWord(text) ==
    IF text = <<>> THEN <<>>
    ELSE IF IsSpace(text[Len(text)]) THEN <<>>
    ELSE Append(LastWord(SubSeq(text, 1, Len(text) - 1)), text[Len(text)])

\* patterns that are not anchored at their end
TailMatches_Unanchored(tail, rest) == TRUE

\* what follows the literal satisfies the tail of the pattern
TailMatches(tail, rest) ==
    IF tail = "$" THEN rest = <<>>
    ELSE IF tail = "\\b" THEN (IF rest = <<>> THEN TRUE ELSE ~IsWordChar(Head(rest)))
    ELSE IF rest = <<>> THEN FALSE
    ELSE IF ~IsSpace(Head(rest)) THEN FALSE
    ELSE LStrip(rest) # <<>> /\ LastWord(rest) = LStrip(rest)

\* pattern.search(stripped) for a pattern anchored at "^"
RuleMatches(rule, text) ==
    \E lit \in rule.literals :
        IF Len(text) < Len(lit) THEN FALSE
        ELSE /\ Lower(SubSeq(text, 1, Len(lit))) = Lower(lit)
             /\ TailMatches(rule.tail, SubSeq(text, Len(lit) + 1, Len(text)))

\* The payload of the intent: the alias, the reference, or the whole stripped text
Payload(rule, text) ==
    IF rule.kind = "PLAN_TEMPLATE" THEN Lower(SubSeq(text, Len(Literal.plan) + 2, Len(text)))
    ELSE IF rule.kind \in {"SWITCH_SESSION", "DELETE_SESSION"} THEN LastWord(text)
    ELSE text

\* the index of the first rule from i on that matches, 0 for none
RECURSIVE FirstMatch(_, _)
FirstMatch(text, i) ==
    IF i > Len(Rules) THEN 0
    ELSE IF RuleMatches(Rules[i], text) THEN i
    ELSE FirstMatch(text, i + 1)

\* the index of the last rule up to i that matches, 0 for none
RECURSIVE LastMatch(_, _)
LastMatch(text, i) ==
    IF i = 0 THEN 0
    ELSE IF RuleMatches(Rules[i], text) THEN i
    ELSE LastMatch(text, i - 1)

Intent(kind, payload) == [kind |-> kind, payload |-> payload]

\* parse_intent in which a later rule overrides an earlier one
parse_intent_last_match(text) ==
    IF LastMatch(Strip(text), Len(Rules)) = 0 THEN Intent("CHAT", Strip(text))
    ELSE Intent(Rules[LastMatch(Strip(text), Len(Rules))].kind,
                Payload(Rules[LastMatch(Strip(text), Len(Rules))], Strip(text)))

\* parse_intent, intents.py:53-58
parse_intent(text) ==
    IF FirstMatch(Strip(text), 1) = 0 THEN Intent("CHAT", Strip(text))
    ELSE Intent(Rules[FirstMatch(Strip(text), 1)].kind,
                Payload(Rules[FirstMatch(Strip(text), 1)], Strip(text)))

\* intent = parse_intent(text), app.py:180
classify(text) ==
    /\ last' = Ended("parse_intent", text, "ok", parse_intent(text))
    /\ UNCHANGED <<sessionVars, appVars, engineVars, transport>>

\* The input lines
Samples ==
    {<<>>,
     <<"p", "l", "a", "n">>,
     <<"p", "l", "a", "n", " ", "a", "r", "c", "h", "i", "t", "e", "c", "t", "u", "r", "e">>,
     <<"p", "l", "a", "n", " ", "a", "r", "c", "h">>,
     <<"p", "l", "a", "n", " ", "p", "r", "o", "d", "u", "c", "t">>,
     <<"p", "l", "a", "n", " ", "p", "r", "o", "d", "u", "c", "t", " ", "d", "e", "s", "i", "g", "n">>,
     <<"p", "l", "a", "n", " ", "r", "e", "q", "u", "i", "r", "e", "m", "e", "n", "t", "s">>,
     <<"p", "l", "a", "n", " ", "r", "e", "q", "s">>,
     <<"p", "l", "a", "n", " ", "a", "p", "i">>,
     <<"p", "l", "a", "n", " ", "a", "r", "c", "h", "i">>,
     <<"p", "l", "a", "n", " ", "a", "r", "c", "h", " ", "n", "o", "w">>,
     <<"p", "l", "a", "n", " ", " ", "a", "r", "c", "h">>,
     <<"p", "l", "a", "n", "n", "i", "n", "g", " ", "a", "h", "e", "a", "d">>,
     <<"p", "l", "a", "n", "-", "b">>,
     <<"l", "e", "t", "'", "s", " ", "p", "l", "a", "n">>,
     <<"l", "e", "t", "s", " ", "p", "l", "a", "n">>,
     <<"l", "o", "c", "k", " ", "s", "p", "e", "c">>,
     <<"f", "r", "e", "e", "z", "e", " ", "s", "p", "e", "c">>,
     <<"l", "o", "c", "k", " ", "s", "p", "e", "c", "s">>,
     <<"b", "u", "i", "l", "d">>,
     <<"i", "m", "p", "l", "e", "m", "e", "n", "t">>,
     <<"d", "o", " ", "i", "t">>,
     <<"b", "u", "i", "l", "d", " ", "i", "t">>,
     <<"r", "e", "b", "u", "i", "l", "d">>,
     <<"s", "h", "o", "w", " ", "s", "p", "e", "c">>,
     <<"s", "p", "e", "c">>,
     <<"s", "h", "o", "w", " ", "d", "i", "f", "f">>,
     <<"d", "i", "f", "f">>,
     <<"a", "p", "p", "l", "y">>,
     <<"m", "e", "r", "g", "e">>,
     <<"r", "o", "l", "l", "b", "a", "c", "k">>,
     <<"u", "n", "d", "o">>,
     <<"w", "h", "y">>,
     <<"w", "h", "y", " ", "n", "o", "t">>,
     <<"w", "h", "y", "e", "v", "e", "r">>,
     <<"b", "l", "o", "c", "k", "e", "d">>,
     <<"s", "t", "a", "t", "u", "s">>,
     <<"s", "t", "a", "t", "e">>,
     <<"s", "t", "a", "t", "u", "s", " ", "r", "e", "p", "o", "r", "t">>,
     <<"m", "y", " ", "s", "t", "a", "t", "u", "s">>,
     <<"h", "e", "l", "p">>,
     <<"?">>,
     <<"h", "e", "l", "p", "e", "r">>,
     <<"s", "e", "s", "s", "i", "o", "n", "s">>,
     <<"l", "i", "s", "t", " ", "s", "e", "s", "s", "i", "o", "n", "s">>,
     <<"l", "s">>,
     <<"s", "w", "i", "t", "c", "h", " ", "a", "b", "c", "1", "2", "3">>,
     <<"s", "e", "s", "s", "i", "o", "n", " ", "a", "b", "c", "1", "2", "3">>,
     <<"r", "e", "s", "u", "m", "e", " ", "a", "b", "c", "1", "2", "3">>,
     <<"s", "w", "i", "t", "c", "h", " ", "#", "2">>,
     <<"s", "w", "i", "t", "c", "h", " ", " ", "a", "b", "c", "1", "2", "3">>,
     <<"s", "w", "i", "t", "c", "h">>,
     <<"s", "e", "s", "s", "i", "o", "n">>,
     <<"r", "e", "s", "u", "m", "e">>,
     <<"d", "e", "l", "e", "t", "e", " ", "s", "e", "s", "s", "i", "o", "n", " ", "a", "b", "c", "1", "2", "3">>,
     <<"r", "m", " ", "s", "e", "s", "s", "i", "o", "n", " ", "a", "b", "c", "1", "2", "3">>,
     <<"d", "e", "l", "e", "t", "e", " ", "s", "e", "s", "s", "i", "o", "n">>,
     <<"r", "m", " ", "s", "e", "s", "s", "i", "o", "n">>,
     <<"c", "l", "e", "a", "r", " ", "t", "e", "m", "p", "l", "a", "t", "e">>,
     <<"h", "e", "l", "l", "o", " ", "w", "o", "r", "l", "d">>}

Inputs ==
    Samples \cup {Upper(t) : t \in Samples} \cup {<<" ">> \o t \o <<" ", "\t">> : t \in Samples}


(***************************************************************************)
(* The orchestrator (app.py).  on_input_submitted handles one input line:  *)
(* it strips it, ignores a blank line, takes the line as the answer to a   *)
(* pending template confirmation, or classifies it and runs the handler    *)
(* of its kind.  A handler that awaits the daemon takes what the daemon    *)
(* answered as its parameter.  Session ids are names; Spelling gives the   *)
(* text of each, as a reference on an input line spells it.                *)
(***************************************************************************)
Spelling == [s1 |-> <<"s", "1">>, s2 |-> <<"s", "2">>, zz |-> <<"z", "z">>]

\* on_mount, app.py:87-128: health() gives the backend type, list_sessions() the session
\* to resume; each may raise and leave the field as it was
on_mount(health, resumed) ==
    /\ last.op = "init"
    /\ backend_type' = IF health = "raised" THEN backend_type ELSE health
    /\ governor_session_id' = IF resumed = "raised" THEN governor_session_id ELSE resumed
    /\ last' = Ended("on_mount", None, "ok", None)
    /\ UNCHANGED <<mode, spec_locked, spec_draft, spec_template, spec_template_content, messages,
                   last_governor_now, project_name, appVars, engineVars, transport>>

\* spec_text in _handle_plan, app.py:232-236
SpecText(payload) ==
    IF IsPrefix(Literal.plan \o <<" ">>, Lower(payload))
      THEN SubSeq(payload, Len(Literal.plan) + 2, Len(payload))
    ELSE IF IsPrefix(Literal.let_s_plan \o <<" ">>, Lower(payload))
      THEN SubSeq(payload, Len(Literal.let_s_plan) + 2, Len(payload))
    ELSE payload

\* _handle_plan, app.py:230-241
handle_plan(payload) ==
    /\ Len(spec_draft) + 2 <= MaxDraftLen     \* the draft has room for a line
    /\ IF SpecText(payload) # <<>>
         THEN /\ spec_draft' = spec_draft \o SpecText(payload) \o <<"\n">>
              /\ last' = Ended("handle_plan", payload, "ok", SpecText(payload))
         ELSE /\ UNCHANGED spec_draft
              /\ last' = Ended("handle_plan", payload, "usage", None)
    /\ UNCHANGED <<mode, spec_locked, spec_template, spec_template_content, messages>>
    /\ UNCHANGED <<governor_session_id, last_governor_now, project_name, backend_type, appVars,
                   engineVars, transport>>

\* key in _TEMPLATE_MAP (app.py:23-30, 277-278): the name of the alias key spells, None
\* when it spells none
TemplateKey(key) ==
    IF \E k \in DOMAIN Alias : Alias[k] = key
      THEN CHOOSE k \in DOMAIN Alias : Alias[k] = key
      ELSE None

\* canonical in _load_template, app.py:295-301
Canonical(k) ==
    IF k = "arch" THEN "architecture"
    ELSE IF k = "reqs" THEN "requirements"
    ELSE IF k = "product_design" THEN "product"
    ELSE k

\* path.read_text() in _load_template: the file is missing, or has a content
TemplateFiles == {[found |-> FALSE, content |-> <<>>], [found |-> TRUE, content |-> <<"T">>]}

\* _load_template, app.py:291-311, on the session
LoadTemplate(k, file) ==
    IF file.found
      THEN /\ spec_template' = Canonical(k)
           /\ spec_template_content' = file.content
      ELSE UNCHANGED <<spec_template, spec_template_content>>

\* _handle_plan_template that loads at once whatever the draft holds
handle_plan_template_at_once(payload, file) ==
    /\ IF TemplateKey(Lower(payload)) = None
         THEN /\ last' = Ended("handle_plan_template", payload, "unknown", None)
              /\ UNCHANGED <<spec_template, spec_template_content, pending_template>>
         ELSE /\ LoadTemplate(TemplateKey(Lower(payload)), file)
              /\ last' = Ended("handle_plan_template", payload,
                               IF file.found THEN "loaded" ELSE "not found",
                               TemplateKey(Lower(payload)))
              /\ UNCHANGED pending_template
    /\ UNCHANGED <<mode, spec_locked, spec_draft, messages, governor_session_id,
                   last_governor_now, project_name, backend_type, last_session_list,
                   engineVars, transport>>

\* _handle_plan_template, app.py:275-289
handle_plan_template(payload, file) ==
    /\ IF TemplateKey(Lower(payload)) = None
         THEN /\ last' = Ended("handle_plan_template", payload, "unknown", None)
              /\ UNCHANGED <<spec_template, spec_template_content, pending_template>>
         ELSE IF spec_draft # <<>>
           THEN /\ pending_template' = TemplateKey(Lower(payload))
                /\ last' = Ended("handle_plan_template", payload, "pending",
                                 TemplateKey(Lower(payload)))
                /\ UNCHANGED <<spec_template, spec_template_content>>
         ELSE /\ LoadTemplate(TemplateKey(Lower(payload)), file)
              /\ last' = Ended("handle_plan_template", payload,
                               IF file.found THEN "loaded" ELSE "not found",
                               TemplateKey(Lower(payload)))
              /\ UNCHANGED pending_template
    /\ UNCHANGED <<mode, spec_locked, spec_draft, messages, governor_session_id,
                   last_governor_now, project_name, backend_type, last_session_list,
                   engineVars, transport>>

Yes == {<<"y", "e", "s">>, <<"y">>}

\* on_input_submitted with a template pending, app.py:172-178
confirm_template(text, file) ==
    /\ pending_template # None
    /\ IF Lower(text) \in Yes
         THEN /\ LoadTemplate(pending_template, file)
              /\ last' = Ended("confirm_template", text,
                               IF file.found THEN "loaded" ELSE "not found", pending_template)
         ELSE /\ UNCHANGED <<spec_template, spec_template_content>>
              /\ last' = Ended("confirm_template", text, "cancelled", pending_template)
    /\ pending_template' = None
    /\ UNCHANGED <<mode, spec_locked, spec_draft, messages, governor_session_id,
                   last_governor_now, project_name, backend_type, last_session_list,
                   engineVars, transport>>

\* _handle_clear_template, app.py:313-320
handle_clear_template ==
    /\ IF spec_template = None
         THEN /\ last' = Ended("handle_clear_template", None, "nothing loaded", None)
              /\ UNCHANGED <<spec_template, spec_template_content>>
         ELSE /\ spec_template' = None
              /\ spec_template_content' = <<>>
              /\ last' = Ended("handle_clear_template", None, "ok", spec_template)
    /\ UNCHANGED <<mode, spec_locked, spec_draft, messages>>
    /\ UNCHANGED <<governor_session_id, last_governor_now, project_name, backend_type, appVars,
                   engineVars, transport>>

\* What list_sessions() may answer: it raises, or returns the sessions of the daemon
Listings == {[how |-> "raised", ids |-> <<>>], [how |-> "ok", ids |-> <<>>],
             [how |-> "ok", ids |-> <<"s1", "s2">>]}

\* _handle_sessions, app.py:356-373
handle_sessions(listed) ==
    /\ last_session_list' = IF listed.how = "ok" THEN listed.ids ELSE last_session_list
    /\ last' = Ended("handle_sessions", None, listed.how, listed.ids)
    /\ UNCHANGED <<sessionVars, pending_template, engineVars, transport>>

\* int(ref[1:]) for a reference of decimal digits, -1 for a ValueError
RECURSIVE ToInt(_)
ToInt(digits) ==
    LET value == ("0" :> 0) @@ ("1" :> 1) @@ ("2" :> 2) @@ ("3" :> 3) @@ ("4" :> 4)
                 @@ ("5" :> 5) @@ ("6" :> 6) @@ ("7" :> 7) @@ ("8" :> 8) @@ ("9" :> 9)
    IN  IF digits = <<>> THEN -1
        ELSE IF \E i \in 1..Len(digits) : digits[i] \notin Digits THEN -1
        ELSE IF Len(digits) = 1 THEN value[digits[1]]
        ELSE 10 * ToInt(SubSeq(digits, 1, Len(digits) - 1)) + value[digits[Len(digits)]]

\* _resolve_session_id, app.py:339-354
resolve_session_id(ref) ==
    IF Head(ref) = "#"
      THEN IF ToInt(Tail(ref)) >= 1 /\ ToInt(Tail(ref)) <= Len(last_session_list)
             THEN last_session_list[ToInt(Tail(ref))]
             ELSE None
    ELSE IF \E i \in 1..Len(last_session_list) : IsPrefix(ref, Spelling[last_session_list[i]])
      THEN last_session_list[CHOOSE i \in 1..Len(last_session_list) :
                                /\ IsPrefix(ref, Spelling[last_session_list[i]])
                                /\ \A j \in 1..(i - 1) :
                                      ~IsPrefix(ref, Spelling[last_session_list[j]])]
    ELSE IF \E id \in DOMAIN Spelling : Spelling[id] = ref
      THEN CHOOSE id \in DOMAIN Spelling : Spelling[id] = ref
    ELSE "other"    \* the reference itself, which is the id of no session

\* A fresh MaudeSession(governor_session_id, project_name, backend_type) holding history
Replaced(id, history) ==
    /\ mode' = PLAN
    /\ spec_locked' = FALSE
    /\ spec_draft' = <<>>
    /\ spec_template' = None
    /\ spec_template_content' = <<>>
    /\ messages' = history
    /\ governor_session_id' = id
    /\ last_governor_now' = None
    /\ UNCHANGED <<project_name, backend_type>>

\* What get_session(id) may answer: it raises (an unknown id, a lost connection), or
\* returns the session of that id with its turns
Histories == {<<>>, <<[role |-> "user", content |-> <<"a">>]>>}
Fetched(id) ==
    {[how |-> "raised", id |-> None, messages |-> <<>>]}
    \cup (IF id \in SessionIds
            THEN {[how |-> "ok", id |-> id, messages |-> h] : h \in Histories}
            ELSE {})

\* _handle_switch_session that takes the id over before it has the session
handle_switch_session_eager(ref, got) ==
    /\ IF resolve_session_id(ref) = None
         THEN /\ last' = Ended("handle_switch_session", ref, "unresolved", None)
              /\ UNCHANGED sessionVars
         ELSE IF got.how = "raised"
           THEN /\ last' = Ended("handle_switch_session", ref, "raised", resolve_session_id(ref))
                /\ governor_session_id' = resolve_session_id(ref)
                /\ UNCHANGED <<mode, spec_locked, spec_draft, spec_template,
                               spec_template_content, messages, last_governor_now,
                               project_name, backend_type>>
         ELSE /\ Replaced(got.id, got.messages)
              /\ last' = Ended("handle_switch_session", ref, "ok", got.id)
    /\ UNCHANGED <<appVars, engineVars, transport>>

\* _handle_switch_session that keeps the draft of the session it leaves
handle_switch_session_keeps_draft(ref, got) ==
    /\ IF resolve_session_id(ref) = None
         THEN /\ last' = Ended("handle_switch_session", ref, "unresolved", None)
              /\ UNCHANGED sessionVars
         ELSE IF got.how = "raised"
           THEN /\ last' = Ended("handle_switch_session", ref, "raised", resolve_session_id(ref))
                /\ UNCHANGED sessionVars
         ELSE /\ messages' = got.messages
              /\ governor_session_id' = got.id
              /\ last_governor_now' = None
              /\ UNCHANGED <<mode, spec_locked, spec_draft, spec_template,
                             spec_template_content, project_name, backend_type>>
              /\ last' = Ended("handle_switch_session", ref, "ok", got.id)
    /\ UNCHANGED <<appVars, engineVars, transport>>

\* _handle_switch_session, app.py:375-395
handle_switch_session(ref, got) ==
    /\ IF resolve_session_id(ref) = None
         THEN /\ last' = Ended("handle_switch_session", ref, "unresolved", None)
              /\ UNCHANGED sessionVars
         ELSE IF got.how = "raised"
           THEN /\ last' = Ended("handle_switch_session", ref, "raised", resolve_session_id(ref))
                /\ UNCHANGED sessionVars
         ELSE /\ Replaced(got.id, got.messages)
              /\ last' = Ended("handle_switch_session", ref, "ok", got.id)
    /\ UNCHANGED <<appVars, engineVars, transport>>

\* What delete_session may answer: it raises, or returns whether the daemon deleted
Deletions == {"raised", "deleted", "kept"}

\* _handle_delete_session, app.py:397-418; created is what create_session answered for
\* the replacement: an id the daemon has not given before, or "raised"
handle_delete_session(ref, deleted, created) ==
    /\ IF resolve_session_id(ref) = None
         THEN /\ last' = Ended("handle_delete_session", ref, "unresolved", None)
              /\ UNCHANGED sessionVars
         ELSE IF deleted # "deleted"
           THEN /\ last' = Ended("handle_delete_session", ref, deleted, resolve_session_id(ref))
                /\ UNCHANGED sessionVars
         ELSE IF resolve_session_id(ref) # governor_session_id
           THEN /\ last' = Ended("handle_delete_session", ref, "deleted", resolve_session_id(ref))
                /\ UNCHANGED sessionVars
         ELSE IF created = "raised"
           THEN /\ last' = Ended("handle_delete_session", ref, "deleted, create raised",
                                 resolve_session_id(ref))
                /\ UNCHANGED sessionVars
         ELSE /\ Replaced(created, <<>>)
              /\ last' = Ended("handle_delete_session", ref, "deleted, replaced", created)
    /\ UNCHANGED <<appVars, engineVars, transport>>

\* A handler that writes to the log and changes nothing: help, show spec, the stubs, and
\* status and why, which show what the daemon answered (app.py:182-185, 196-199, 206-211)
show(kind) ==
    /\ last' = Ended("show", kind, "ok", None)
    /\ UNCHANGED <<sessionVars, appVars, engineVars, transport>>

\* on_input_submitted on a blank line, app.py:162-164
ignore_blank(line) ==
    /\ last' = Ended("on_input_submitted", line, "ignored", None)
    /\ UNCHANGED <<sessionVars, appVars, engineVars, transport>>

\* The input lines
Lines ==
    {<<" ">>,
     <<"p", "l", "a", "n", " ", "a">>,
     <<"p", "l", "a", "n">>,
     <<"l", "o", "c", "k", " ", "s", "p", "e", "c">>,
     <<"b", "u", "i", "l", "d">>,
     <<"p", "l", "a", "n", " ", "A", "r", "c", "h">>,
     <<"c", "l", "e", "a", "r", " ", "t", "e", "m", "p", "l", "a", "t", "e">>,
     <<"Y", "e", "s">>,
     <<"n", "o">>,
     <<"s", "e", "s", "s", "i", "o", "n", "s">>,
     <<"s", "w", "i", "t", "c", "h", " ", "#", "2">>,
     <<"s", "w", "i", "t", "c", "h", " ", "#", "3">>,
     <<"s", "w", "i", "t", "c", "h", " ", "s">>,
     <<"s", "w", "i", "t", "c", "h", " ", "z", "z">>,
     <<"d", "e", "l", "e", "t", "e", " ", "s", "e", "s", "s", "i", "o", "n", " ", "s", "1">>,
     <<"s", "h", "o", "w", " ", "s", "p", "e", "c">>}

\* event.value.strip() and parse_intent(text) for each input line, app.py:162, 180
Submitted == [line \in Lines |-> [text |-> Strip(line), intent |-> parse_intent(line)]]

\* on_input_submitted, app.py:161-213
on_input_submitted(line) ==
    LET text == Submitted[line].text
        intent == Submitted[line].intent
    IN  /\ last.op # "init"
        /\ IF text = <<>> THEN ignore_blank(line)
           ELSE IF pending_template # None
             THEN \E file \in TemplateFiles : confirm_template(text, file)
           ELSE IF intent.kind = "PLAN_TEMPLATE"
             THEN \E file \in TemplateFiles : handle_plan_template(intent.payload, file)
           ELSE IF intent.kind = "CLEAR_TEMPLATE" THEN handle_clear_template
           ELSE IF intent.kind = "PLAN" THEN handle_plan(intent.payload)
           ELSE IF intent.kind = "LOCK_SPEC" THEN \E sub \in Submissions : handle_lock_spec(sub)
           ELSE IF intent.kind = "BUILD" THEN \E sub \in Submissions : handle_build(sub)
           ELSE IF intent.kind = "SESSIONS" THEN \E listed \in Listings : handle_sessions(listed)
           ELSE IF intent.kind = "SWITCH_SESSION"
             THEN \E got \in Fetched(resolve_session_id(intent.payload)) :
                     handle_switch_session(intent.payload, got)
           ELSE IF intent.kind = "DELETE_SESSION"
             THEN \E deleted \in Deletions :
                     \E created \in IF deleted = "deleted"
                                       THEN (SessionIds \ {resolve_session_id(intent.payload)})
                                            \cup {"raised"}
                                       ELSE {"raised"} :
                        handle_delete_session(intent.payload, deleted, created)
           ELSE IF intent.kind = "CHAT"
             THEN \E reply \in ChatReplies : handle_chat(text, reply)
           ELSE show(intent.kind)

vars == <<mode, spec_locked, spec_draft, spec_template, spec_template_content, messages,
          governor_session_id, last_governor_now, project_name, backend_type,
          pending_template, last_session_list, last,
          request_id, cx, conns, delivered, last_stream_result, running, pc, at, cur,
          outcome, yielded, readLog, assigned, written, closer, transport>>

\* MaudeApp.__init__, app.py:76-78
AppInit ==
    /\ pending_template = None
    /\ last_session_list = <<>>

Init ==
    /\ SessionInit
    /\ AppInit
    /\ last = Ended("init", None, "ok", None)
    /\ EngineInit
    /\ TransportInit

SessionNext ==
    \/ \E m \in Mode : set_mode(m)
    \/ lock_spec
    \/ unlock_spec
    \/ \E n \in TemplateNames, c \in TemplateContents : load_template(n, c)
    \/ clear_template
    \/ \E r \in Roles, c \in Texts : add_message(r, c)
    \/ \E t \in Texts : append_draft(t)
    \/ \E sub \in Submissions : handle_lock_spec(sub)
    \/ \E sub \in Submissions : handle_build(sub)
    \/ \E text \in Texts, reply \in ChatReplies : handle_chat(text, reply)
    \/ \E created \in SessionIds \cup {"raised"} : action_new_session(created)

SessionSpec == Init /\ [][SessionNext]_vars

\* The orchestrator after on_mount: input lines one after the other, each handled to
\* its end before the next (the handlers of one widget run one at a time), and the
\* new-session key
AppNext ==
    \/ \E health \in {"anthropic"}, resumed \in {"s1"} : on_mount(health, resumed)
    \/ \E line \in Lines : on_input_submitted(line)
    \/ \E created \in SessionIds \cup {"raised"} : last.op # "init" /\ action_new_session(created)

AppSpec == Init /\ [][AppNext]_vars

IntentNext == \E text \in Inputs : classify(text)

\* The classifier alone, applied to one input line after the other
IntentSpec == Init /\ [][IntentNext]_vars

\* What the daemon sends on a connection before it closes, for the life cycle of the
\* transport: nothing, one frame, two frames, a frame cut in its body
DaemonOutputs ==
    LET r == [jsonrpc |-> "2.0", id |-> 1, result |-> <<>>]
        n == [jsonrpc |-> "2.0", method |-> "chat.delta", params |-> [content |-> "a"]]
    IN  {<<>>, Encode(r), Encode(n) \o Encode(r), SubSeq(Encode(r), 1, 3)}

TransportNext ==
    \/ \E stream \in DaemonOutputs : tr_connect(stream)
    \/ tr_connect_fails
    \/ tr_close
    \/ tr_read_message
    \/ \E m \in WireMessages, sent \in BOOLEAN : tr_write_message(m, sent)

TransportSpec == Init /\ [][TransportNext]_vars

\* The decoder alone: a connected transport whose daemon has sent one of Streams and
\* closed, read message after message.
FramingInit ==
    /\ SessionInit
    /\ AppInit
    /\ last = Ended("init", None, "ok", None)
    /\ EngineInit
    /\ \E stream \in Streams :
          transport = [open |-> TRUE, closing |-> FALSE, inbound |-> stream, outbound |-> <<>>,
                       generation |-> 1]

FramingNext == tr_read_message

FramingSpec == FramingInit /\ [][FramingNext]_vars

\* Ids the daemon answers: those of the two most recent requests.
RecentIds == {i \in 1..request_id : i >= request_id - 1}

\* Any frame the daemon may send
Frames == Notifications \cup Responses(RecentIds)

\* The frames of a chat exchange with a status poll: one delta, and results
PollFrames == {[method |-> "chat.delta", params |-> [content |-> "a"]]}
              \cup {[id |-> i, result |-> "r"] : i \in RecentIds}

\* The engine driven by one caller: the input handler issues its calls one after
\* the other (unary calls and the chat stream); the daemon sends any frame.
EngineNext ==
    \/ StartCall("main", "call", "governor.status")
    \/ StartCall("main", "stream", "chat.stream")
    \/ ConnectFails("main")
    \/ WriteFails("main", "call", "governor.status")
    \/ WriteFails("main", "stream", "chat.stream")
    \/ \E t \in Tasks : Read(t)
    \/ \E t \in Tasks : Resume(t)
    \/ \E resp \in Frames : Deliver(resp)
    \/ DaemonEOF
    \/ Close
    \/ CloseDone

Spec == Init /\ [][EngineNext]_vars

(***************************************************************************)
(* The chat turn over the engine (app.py:420-463, rpc.py:185-231, 318-334).*)
(* The handler adds the user turn and opens the chat stream; the stream    *)
(* runs as the engine's steps of the main task, each fragment the engine   *)
(* yields being added to full_response; the handler goes on when the       *)
(* stream has ended or raised.  last records the turn in progress, with    *)
(* the outcome "awaiting" while the handler is inside "async for".         *)
(***************************************************************************)
Awaiting == last.op = "handle_chat" /\ last.outcome = "awaiting"

\* full_response = ""; full_response += delta, app.py:448-451: each fragment is a
\* text of one character
RECURSIVE Concat(_)
Concat(frags) ==
    IF frags = <<>> THEN <<>> ELSE <<Head(frags)>> \o Concat(Tail(frags))

\* _handle_chat up to the stream, app.py:420-449
chat_begin(text) ==
    /\ ~Awaiting
    /\ pc["main"] = "idle"
    /\ Len(messages) + 2 <= MaxMessages
    /\ messages' = Append(messages, [role |-> "user", content |-> text])
    /\ last' = Ended("handle_chat",
                     [text |-> text,
                      sent |-> ChatRequest(messages', spec_template_content, spec_draft)],
                     "awaiting", <<>>)
    /\ UNCHANGED <<mode, spec_locked, spec_draft, spec_template, spec_template_content>>
    /\ UNCHANGED <<governor_session_id, last_governor_now, project_name, backend_type, appVars,
                   engineVars, transport>>

\* _handle_chat that files the reply whether or not the stream raised
chat_end_unguarded ==
    /\ Awaiting
    /\ pc["main"] = "done"
    /\ LET full_response == Concat(yielded["main"])
       IN  /\ messages' = Append(messages, [role |-> "assistant", content |-> full_response])
           /\ spec_draft' = IF spec_template_content # <<>> /\ full_response # <<>>
                              THEN spec_draft \o full_response \o <<"\n">>
                              ELSE spec_draft
           /\ last' = [last EXCEPT !.outcome = "ok", !.ret = full_response]
    /\ pc' = [pc EXCEPT !["main"] = "idle"]
    /\ UNCHANGED <<mode, spec_locked, spec_template, spec_template_content>>
    /\ UNCHANGED <<governor_session_id, last_governor_now, project_name, backend_type, appVars,
                   transport>>
    /\ UNCHANGED <<request_id, cx, conns, delivered, last_stream_result, running, at, cur,
                   outcome, yielded, readLog, assigned, written, closer>>

\* _handle_chat after the stream, app.py:450-463: "except Exception: return", or the
\* assistant turn and, under a template, the reply added to the draft.  The generator
\* is exhausted either way, so the main task is at no call.
chat_end ==
    /\ Awaiting
    /\ pc["main"] = "done"
    /\ LET full_response == Concat(yielded["main"])
       IN  IF outcome["main"] = StreamEnd
             THEN /\ messages' = Append(messages, [role |-> "assistant", content |-> full_response])
                  /\ spec_draft' = IF spec_template_content # <<>> /\ full_response # <<>>
                                     THEN spec_draft \o full_response \o <<"\n">>
                                     ELSE spec_draft
                  /\ last' = [last EXCEPT !.outcome = "ok", !.ret = full_response]
             ELSE /\ last' = [last EXCEPT !.outcome = "raised"]
                  /\ UNCHANGED <<messages, spec_draft>>
    /\ pc' = [pc EXCEPT !["main"] = "idle"]
    /\ UNCHANGED <<mode, spec_locked, spec_template, spec_template_content>>
    /\ UNCHANGED <<governor_session_id, last_governor_now, project_name, backend_type, appVars,
                   transport>>
    /\ UNCHANGED <<request_id, cx, conns, delivered, last_stream_result, running, at, cur,
                   outcome, yielded, readLog, assigned, written, closer>>

\* what the daemon sends during a chat: fragments, and the result or the error
\* response to a recent request
ChatFrames == {[method |-> "chat.delta", params |-> [content |-> c]] : c \in {"a", "b"}}
              \cup Responses(RecentIds)

\* One chat turn at a time over one connection at a time; between turns a template
\* is loaded or the session is replaced.
ChatNext ==
    \/ \E text \in Texts : chat_begin(text)
    \/ Awaiting /\ pc["main"] = "idle" /\ StartCall("main", "stream", "chat.stream")
    \/ Awaiting /\ pc["main"] = "idle" /\ ConnectFails("main")
    \/ Awaiting /\ pc["main"] = "idle" /\ WriteFails("main", "stream", "chat.stream")
    \/ Read("main")
    \/ Resume("main")
    \/ \E resp \in ChatFrames : Deliver(resp)
    \/ DaemonEOF
    \/ chat_end
    \/ ~Awaiting /\ load_template("architecture", <<"T">>)
    \/ ~Awaiting /\ \E created \in SessionIds \cup {"raised"} : action_new_session(created)

ChatSpec == Init /\ [][ChatNext]_vars

\* The frames that bear on how a call ends: a delta, and the result or the error
\* response to a recent request
AnswerFrames == {[method |-> "chat.delta", params |-> [content |-> "a"]]}
                \cup Responses(RecentIds)

\* The engine driven by one caller, as in EngineNext, with a daemon that sends
\* answer frames.
AnswerNext ==
    \/ StartCall("main", "call", "governor.status")
    \/ StartCall("main", "stream", "chat.stream")
    \/ ConnectFails("main")
    \/ WriteFails("main", "call", "governor.status")
    \/ WriteFails("main", "stream", "chat.stream")
    \/ \E t \in Tasks : Read(t)
    \/ \E t \in Tasks : Resume(t)
    \/ \E resp \in AnswerFrames : Deliver(resp)
    \/ DaemonEOF
    \/ Close
    \/ CloseDone

\* The event loop runs every callback it has scheduled: a call that can read its
\* next message does, and a call whose reader was woken is resumed.  Nothing is
\* assumed of the daemon or of the caller.
FairSpec ==
    /\ Init
    /\ [][AnswerNext]_vars
    /\ WF_vars(\E t \in Tasks : Read(t))
    /\ WF_vars(\E t \in Tasks : Resume(t))

\* _poll_status (app.py:130-139): every 5 seconds, governor_now() -> _call("governor.now"),
\* whatever the input handler is doing.
PollStatus == StartCall("poll", "call", "governor.now")

\* _poll_status after governor_now(): self.session.last_governor_now = now when the
\* call returned, and "except Exception: pass" when it raised (app.py:135-139)
PollStatusDone ==
    /\ running = "poll"
    /\ pc["poll"] = "done"
    /\ last_governor_now' = IF outcome["poll"].type = "result" THEN outcome["poll"].detail[1]
                             ELSE last_governor_now
    /\ running' = None
    /\ UNCHANGED <<mode, spec_locked, spec_draft, spec_template, spec_template_content, messages,
                   governor_session_id, project_name, backend_type, appVars, last, transport>>
    /\ UNCHANGED <<request_id, cx, conns, delivered, last_stream_result, pc, at, cur, outcome,
                   yielded, readLog, assigned, written, closer>>

\* The engine driven by the input handler and by _poll_status, both tasks of one event loop.
PollNext ==
    \/ StartCall("main", "stream", "chat.stream")
    \/ StartCall("main", "call", "governor.status")
    \/ PollStatus
    \/ PollStatusDone
    \/ \E t \in Tasks : Read(t)
    \/ \E t \in Tasks : Resume(t)
    \/ \E resp \in PollFrames : Deliver(resp)
    \/ DaemonEOF

PollSpec == Init /\ [][PollNext]_vars

(***************************************************************************)
(* C1: in every reachable Session state, mode = BUILD implies spec_locked. *)
(* unlock_spec leaves mode alone, so lock_spec, set_mode(BUILD),           *)
(* unlock_spec reaches BUILD with an unlocked spec.                        *)
(***************************************************************************)
C1_BuildImpliesLocked == mode = BUILD => spec_locked

(***************************************************************************)
(* C2: set_mode(BUILD) ends in a ValueError and leaves mode alone when the *)
(* spec is not locked, and sets mode to BUILD when it is; set_mode(PLAN)   *)
(* succeeds from every state and sets mode to PLAN.                        *)
(***************************************************************************)
C2_SetModeGuard ==
    [][last'.op = "set_mode" =>
         IF last'.arg = BUILD /\ ~spec_locked
           THEN last'.outcome = "ValueError" /\ mode' = mode
           ELSE last'.outcome = "ok" /\ mode' = last'.arg]_vars

\* set_mode(BUILD) has just succeeded on a locked spec
C2_Witness ==
    /\ last.op = "set_mode"
    /\ last.arg = BUILD
    /\ last.outcome = "ok"
    /\ mode = BUILD
    /\ spec_locked

(***************************************************************************)
(* Vocabulary of the properties below.                                     *)
(***************************************************************************)
IsEndOfStream(m) == "eof" \in DOMAIN m
IsNotification(m) == ~IsEndOfStream(m) /\ "id" \notin DOMAIN m
IsResponseTo(m, id) == "id" \in DOMAIN m /\ m.id = id
HasFragment(m, method) ==
    /\ IsNotification(m)
    /\ "method" \in DOMAIN m /\ m.method = method
    /\ "params" \in DOMAIN m /\ "content" \in DOMAIN m.params /\ m.params.content # ""

\* the content of the notifications of log that carry a fragment, in order
RECURSIVE ExpectedFragments(_, _)
ExpectedFragments(log, method) ==
    IF log = <<>> THEN <<>>
    ELSE (IF HasFragment(Head(log), method) THEN <<Head(log).params.content>> ELSE <<>>)
         \o ExpectedFragments(Tail(log), method)

Final(log) == log[Len(log)]
Streaming(t) == cur[t].kind = "stream"
Unary(t) == cur[t].kind = "call"
\* the positions of log holding a response to request id
Matches(log, id) == {i \in 1..Len(log) : IsResponseTo(log[i], id)}
IsRemoteError(o) == o.type = "RuntimeError" /\ o.detail # <<>> /\ o.detail[1] = "RPC error"
RemoteError(err) == [type |-> "RuntimeError", detail |-> <<"RPC error", err.code, err.message>>]

(***************************************************************************)
(* C3: a streaming call has handed over exactly the content of the         *)
(* matching-method notifications it has read, in the order read; it ends   *)
(* normally exactly on the response carrying its id, having handed over    *)
(* all of them, and nothing of that response is handed over.               *)
(***************************************************************************)
C3_StreamYieldsMatching ==
    \A t \in Tasks : Streaming(t) =>
        /\ yielded[t] = ExpectedFragments(readLog[t], "chat.delta")
        /\ outcome[t] = StreamEnd =>
              /\ Matches(readLog[t], cur[t].id) = {Len(readLog[t])}
              /\ "error" \notin DOMAIN Final(readLog[t])
        /\ (readLog[t] # <<>> /\ IsResponseTo(Final(readLog[t]), cur[t].id)
                /\ "error" \notin DOMAIN Final(readLog[t]))
              => outcome[t] = StreamEnd /\ pc[t] = "done"

\* two fragments, then the terminal response
C3_Witness ==
    /\ Streaming("main")
    /\ outcome["main"] = StreamEnd
    /\ yielded["main"] = <<"a", "b">>
    /\ Len(readLog["main"]) = 3

(***************************************************************************)
(* C4: a unary call returns or raises a remote error only on the first     *)
(* response it reads that carries its id, and takes the outcome from that   *)
(* response; notifications and responses with other ids read before it     *)
(* are skipped.                                                            *)
(***************************************************************************)
C4_CallOutcomeFromFirstMatch ==
    \A t \in Tasks : Unary(t) =>
        LET log == readLog[t]
            hit == Matches(log, cur[t].id)
        IN  /\ hit \subseteq {Len(log)}
            /\ (outcome[t].type = "result" \/ IsRemoteError(outcome[t])) => hit # {}
            /\ hit # {} =>
                  /\ pc[t] = "done"
                  /\ outcome[t] = IF "error" \in DOMAIN Final(log)
                                    THEN RemoteError(Final(log).error)
                                    ELSE [type |-> "result", detail |-> <<Final(log).result>>]

\* a notification and a response with another id were skipped before the result
C4_Witness ==
    /\ Unary("main")
    /\ outcome["main"].type = "result"
    /\ Len(readLog["main"]) = 3
    /\ \E i \in 1..2 : IsNotification(readLog["main"][i])
    /\ \E i \in 1..2 : "id" \in DOMAIN readLog["main"][i]

(***************************************************************************)
(* C5: the ids one client assigns are 1, 2, 3, ... in this order, whatever  *)
(* was read, however calls ended, and across close and reconnect.          *)
(***************************************************************************)
C5_IdsSequential ==
    /\ \A i \in 1..Len(assigned) : assigned[i] = i
    /\ request_id = Len(assigned)

\* a second id assigned on a second connection after a call failed
C5_Witness ==
    /\ Len(assigned) >= 2
    /\ Len(conns) >= 2
    /\ cx = 2
    /\ outcome["main"].type = "ConnectionError"

(***************************************************************************)
(* C6: a unary call whose read reports end-of-stream ends at once with a   *)
(* connection error; a call that returned a result never read              *)
(* end-of-stream.                                                          *)
(***************************************************************************)
C6_CallFailsOnEndOfStream ==
    \A t \in Tasks : Unary(t) =>
        /\ (readLog[t] # <<>> /\ IsEndOfStream(Final(readLog[t])))
              => pc[t] = "done" /\ outcome[t].type = "ConnectionError"
        /\ outcome[t].type = "result" => \A i \in 1..Len(readLog[t]) : ~IsEndOfStream(readLog[t][i])

\* end-of-stream after a notification, before any response
C6_Witness ==
    /\ Unary("main")
    /\ Len(readLog["main"]) = 2
    /\ IsNotification(readLog["main"][1])
    /\ IsEndOfStream(readLog["main"][2])
    /\ outcome["main"].type = "ConnectionError"

(***************************************************************************)
(* C7: a streaming call whose read reports end-of-stream has handed over   *)
(* exactly the fragments of the matching notifications read before, and    *)
(* ends with a connection error, not normally.                             *)
(***************************************************************************)
C7_StreamFailsOnEndOfStream ==
    \A t \in Tasks :
        (Streaming(t) /\ readLog[t] # <<>> /\ IsEndOfStream(Final(readLog[t]))) =>
            /\ pc[t] = "done"
            /\ outcome[t].type = "ConnectionError"
            /\ yielded[t] = ExpectedFragments(SubSeq(readLog[t], 1, Len(readLog[t]) - 1), "chat.delta")

\* two fragments, then end-of-stream
C7_Witness ==
    /\ Streaming("main")
    /\ yielded["main"] = <<"b", "a">>
    /\ IsEndOfStream(Final(readLog["main"]))
    /\ outcome["main"].type = "ConnectionError"

(***************************************************************************)
(* C8: a response carrying the call's id and an error object ends the call *)
(* with a remote error holding the error's code and message, never with a  *)
(* normal return; a streaming call has by then handed over every fragment  *)
(* read before.                                                            *)
(***************************************************************************)
C8_RemoteErrorRaised ==
    \A t \in Tasks :
        (readLog[t] # <<>> /\ IsResponseTo(Final(readLog[t]), cur[t].id)
            /\ "error" \in DOMAIN Final(readLog[t])) =>
            /\ pc[t] = "done"
            /\ outcome[t] = RemoteError(Final(readLog[t]).error)
            /\ Streaming(t) => yielded[t] = ExpectedFragments(readLog[t], "chat.delta")

\* a streaming call that handed over a fragment and then failed on the error response
C8_Witness ==
    /\ Streaming("main")
    /\ Len(yielded["main"]) >= 1
    /\ outcome["main"].type = "RuntimeError"
    /\ outcome["main"].detail = <<"RPC error", -32600, "Invalid request">>

(***************************************************************************)
(* C9: at most one call is in flight on the client at any moment; the      *)
(* status poll does not issue governor.now while a streaming call has been *)
(* sent and has not reached its terminal message.                          *)
(* _poll_status takes no lock and looks at no state of the handler, so its *)
(* call starts while the chat stream is suspended in its read.             *)
(***************************************************************************)
InFlight(t) == pc[t] \in {"read", "waiting", "woken"}

C9_OneCallInFlight ==
    /\ Cardinality({t \in Tasks : InFlight(t)}) <= 1
    /\ ~(Streaming("main") /\ InFlight("main") /\ InFlight("poll"))

(***************************************************************************)
(* C10: while a status poll and a streaming call are both in flight,       *)
(* neither reads a frame the other needs (a response to the other's id, or *)
(* for the poll a fragment of the stream), and neither fails because the   *)
(* other is reading: each ends on the response carrying its own id.        *)
(* Both loops read from the same reader and drop what is not theirs, and   *)
(* the reader admits one waiting coroutine.                                *)
(***************************************************************************)
Reads(t) == Len(readLog'[t]) = Len(readLog[t]) + 1

C10_PollDoesNotDisturbStream ==
    [][\A t \in Tasks, u \in Tasks :
          (t # u /\ InFlight(t) /\ InFlight(u)) =>
              /\ Reads(t) =>
                    /\ ~IsResponseTo(Final(readLog'[t]), cur[u].id)
                    /\ ~(Streaming(u) /\ HasFragment(Final(readLog'[t]), "chat.delta"))
              /\ outcome'[t] # ReaderBusy]_vars

(***************************************************************************)
(* C11: a local change made before a best-effort submission stays when the *)
(* submission fails: the lock-spec command on a non-empty draft leaves     *)
(* spec_locked true, and the build command on a locked spec leaves mode    *)
(* BUILD, however the submission that follows ended.                       *)
(***************************************************************************)
C11_LocalChangeKept ==
    [][/\ (last'.op = "handle_lock_spec" /\ spec_draft # <<>>) => spec_locked'
       /\ (last'.op = "handle_build" /\ spec_locked) => (mode' = BUILD /\ spec_locked')]_vars

\* the lock-spec command has run on a non-empty draft and its submission raised
C11_Witness ==
    /\ last.op = "handle_lock_spec"
    /\ last.arg = "raised"
    /\ spec_draft # <<>>
    /\ spec_locked

(***************************************************************************)
(* C12: lock_spec, from every Session state, returns the draft as it is,   *)
(* leaves spec_locked true and leaves draft, mode, template fields and     *)
(* turn history as they were.                                              *)
(***************************************************************************)
C12_LockSpecReturnsDraft ==
    [][last'.op = "lock_spec" =>
          /\ last'.ret = spec_draft
          /\ spec_locked'
          /\ UNCHANGED <<spec_draft, mode, spec_template, spec_template_content, messages>>]_vars

\* lock_spec has returned a two-line draft in BUILD mode with a template loaded and a turn recorded
C12_Witness ==
    /\ last.op = "lock_spec"
    /\ last.ret = spec_draft
    /\ Len(spec_draft) = 4
    /\ mode = BUILD
    /\ spec_template # None
    /\ messages # <<>>

(***************************************************************************)
(* C13: the build command issued while the spec is not locked changes no   *)
(* Session field and writes no request: no id is assigned, no connection   *)
(* is opened and no call is started.                                       *)
(***************************************************************************)
C13_GuardViolationLocal ==
    [][(last'.op = "handle_build" /\ ~spec_locked) =>
          /\ last'.outcome = "ValueError"
          /\ UNCHANGED sessionVars
          /\ UNCHANGED <<request_id, assigned, conns, cx, cur, pc>>]_vars

\* the build command has just been refused on a non-empty unlocked draft
C13_Witness ==
    /\ last.op = "handle_build"
    /\ last.outcome = "ValueError"
    /\ ~spec_locked
    /\ spec_draft # <<>>
    /\ mode = PLAN

(***************************************************************************)
(* Vocabulary of the connection properties.                                *)
(***************************************************************************)
\* a request is given to a writer in this step
Starts == Len(assigned') = Len(assigned) + 1
\* the writer the client holds is there and has not been closed
WriterOpen == IF cx = 0 THEN FALSE ELSE ~conns[cx].closing
\* this step opens a connection, makes it the client's, and the request goes to it
ConnectsThenWrites ==
    /\ Len(conns') = Len(conns) + 1
    /\ cx' = Len(conns')
    /\ conns'[cx'] = NewConnection
    /\ written'[Len(written')] = cx'
\* this step opens no connection and the request goes to the connection the client holds
WritesWithoutConnecting ==
    /\ Len(conns') = Len(conns)
    /\ cx' = cx
    /\ written'[Len(written')] = cx

(***************************************************************************)
(* C14: a call or streaming call started while the client holds no open    *)
(* writer opens a connection and its request goes to that new connection;  *)
(* started while the client holds an open writer it opens none and its     *)
(* request goes to the connection held.  When connecting fails nothing is  *)
(* written and no id is taken.                                             *)
(***************************************************************************)
C14_ConnectsBeforeWrite ==
    [][/\ Starts => IF WriterOpen THEN WritesWithoutConnecting ELSE ConnectsThenWrites
       /\ \A t \in Tasks : (outcome'[t] = ConnectFailed /\ outcome[t] # ConnectFailed)
                               => UNCHANGED <<assigned, written, request_id, conns, cx>>]_vars

\* a first call connected and returned, a second was written on the same connection
C14_Witness ==
    /\ written = <<1, 1>>
    /\ Len(conns) = 1
    /\ cx = 1
    /\ pc["main"] = "done"
    /\ outcome["main"].type = "result"

(***************************************************************************)
(* C15: the call that fails because the daemon ended the stream does not   *)
(* reconnect, and the call started after it opens a new connection and     *)
(* writes its request there.                                               *)
(* _ensure_connected looks at the writer only, which end of file on the    *)
(* reader leaves open: the next request goes to the ended connection.      *)
(***************************************************************************)
C15_ReconnectsAfterEndOfStream ==
    [][/\ \A t \in Tasks : (Reads(t) /\ IsEndOfStream(Final(readLog'[t])))
                               => (cx' = cx /\ Len(conns') = Len(conns))
       /\ (Starts /\ outcome["main"] = ConnectionClosed) => ConnectsThenWrites]_vars

(***************************************************************************)
(* C16: close() called while a call is suspended waiting for its next      *)
(* message wakes that call at end of file on its reader, and the woken     *)
(* call ends in that resumption with a connection error: it is not left    *)
(* waiting and it returns no result.                                       *)
(***************************************************************************)
C16_CloseFailsWaitingCall ==
    [][\A t \in Tasks :
          /\ (pc[t] = "waiting" /\ closer = "idle" /\ closer' = "closing") =>
                /\ pc'[t] = "woken"
                /\ conns'[at[t]].eof
                /\ conns'[at[t]].buffer = <<>>
          /\ (pc[t] = "woken" /\ closer = "closing" /\ conns[at[t]].buffer = <<>>
                  /\ pc'[t] # "woken") =>
                /\ pc'[t] = "done"
                /\ outcome'[t] = ConnectionClosed]_vars

\* a stream that had handed over a fragment has failed while close() awaits wait_closed()
C16_Witness ==
    /\ closer = "closing"
    /\ Streaming("main")
    /\ pc["main"] = "done"
    /\ yielded["main"] = <<"a">>
    /\ readLog["main"] = <<[method |-> "chat.delta", params |-> [content |-> "a"]], EndOfStream>>
    /\ outcome["main"] = ConnectionClosed

(***************************************************************************)
(* C17: when close() returns the client holds no writer, and the call      *)
(* started next opens a new connection and writes its request there.       *)
(***************************************************************************)
C17_CloseThenReconnect ==
    [][/\ (closer = "closing" /\ closer' = "idle") => cx' = 0
       /\ (Starts /\ cx = 0 /\ conns # <<>>) => ConnectsThenWrites]_vars

\* a call written on a second connection after close() of the first
C17_Witness ==
    /\ Len(conns) = 2
    /\ conns[1].closing
    /\ cx = 2
    /\ written = <<1, 2>>
    /\ closer = "idle"

(***************************************************************************)
(* C18: a transport is not connected before its first connect and after    *)
(* every close; close always succeeds, also on a transport that never      *)
(* connected, and close on a transport that holds no connection changes    *)
(* nothing, so a second close leaves what the first left.                  *)
(***************************************************************************)
C18_ConnectedAndClose ==
    /\ [](transport.generation = 0 => ~Connected(transport))
    /\ [][last'.op = "close" =>
            /\ last'.outcome = "ok"
            /\ ~Connected(transport')
            /\ (~transport.open \/ last.op = "close") => transport' = transport]_vars

\* the second connection has been closed
C18_Witness ==
    /\ last.op = "close"
    /\ last.outcome = "ok"
    /\ transport.generation = 2
    /\ ~Connected(transport)

(***************************************************************************)
(* C19: read_message and write_message on a transport that is not          *)
(* connected fail with a connection error and leave the transport as it    *)
(* was.                                                                    *)
(***************************************************************************)
C19_NotConnectedFails ==
    [][(last'.op \in {"read_message", "write_message"} /\ ~Connected(transport)) =>
          /\ last'.outcome = "ConnectionError"
          /\ transport' = transport]_vars

\* a write refused after the connection was closed
C19_Witness ==
    /\ last.op = "write_message"
    /\ last.outcome = "ConnectionError"
    /\ transport.generation >= 1
    /\ ~transport.open

(***************************************************************************)
(* C20: reading a message at the start of a frame returns end-of-stream    *)
(* only when no length header was read before the stream ended; when the   *)
(* stream ends after a length header was read, before the blank line or    *)
(* before the declared body is complete, the read fails.                   *)
(* The header loop returns None whenever readline meets end of file, also  *)
(* after the length header: only a short body makes the read fail.         *)
(***************************************************************************)
\* the header lines of stream s before its first blank line
RECURSIVE HeaderBlock(_)
HeaderBlock(s) ==
    IF s = <<>> THEN <<>>
    ELSE IF IsByte(Head(s)) THEN <<>>
    ELSE IF Head(s).line = "blank" THEN <<>>
    ELSE <<Head(s)>> \o HeaderBlock(Tail(s))
\* the lengths the header block declares
DeclaredLengths(s) ==
    {HeaderBlock(s)[i].value : i \in {j \in 1..Len(HeaderBlock(s)) :
                                          /\ HeaderBlock(s)[j].line = "header"
                                          /\ HeaderBlock(s)[j].key = "Content-Length"}}
AtFrameStart(s) == IF s = <<>> THEN TRUE ELSE ~IsByte(Head(s))
\* the stream ends before the blank line, or before the body is complete
EndsInsideFrame(s) ==
    LET n == Len(HeaderBlock(s))
    IN  IF n = Len(s) THEN TRUE
        ELSE \E len \in DeclaredLengths(s) : Len(LeadingBytes(SubSeq(s, n + 2, Len(s)))) < len

C20_TruncationFails ==
    [][(last'.op = "read_message" /\ Connected(transport) /\ AtFrameStart(transport.inbound)) =>
          /\ (last'.outcome = "ok" /\ IsEndOfStream(last'.ret))
                => DeclaredLengths(transport.inbound) = {}
          /\ (DeclaredLengths(transport.inbound) # {} /\ EndsInsideFrame(transport.inbound))
                => last'.outcome # "ok"]_vars

(***************************************************************************)
(* C21: reading a frame whose header block is closed by its blank line     *)
(* and holds no length header does not report end-of-stream: the outcome   *)
(* is a failure of its own.                                                *)
(* The decoder returns None for such a frame, which is what it returns at  *)
(* end of file, so the caller cannot tell the two apart.                   *)
(***************************************************************************)
\* the header block of s is closed by a blank line
HeaderBlockClosed(s) ==
    IF Len(HeaderBlock(s)) < Len(s) THEN ~IsByte(s[Len(HeaderBlock(s)) + 1]) ELSE FALSE

C21_MissingLengthIsProtocolError ==
    [][(/\ last'.op = "read_message"
        /\ Connected(transport)
        /\ AtFrameStart(transport.inbound)
        /\ HeaderBlockClosed(transport.inbound)
        /\ DeclaredLengths(transport.inbound) = {}) =>
          ~(last'.outcome = "ok" /\ IsEndOfStream(last'.ret))]_vars

(***************************************************************************)
(* C22: reading from a stream that starts with the encoding of a message   *)
(* returns that message and leaves exactly what follows the encoding, and  *)
(* reading from an exhausted stream returns end-of-stream; so a stream of  *)
(* encoded messages is read back message by message, in order, and then    *)
(* ends.                                                                   *)
(***************************************************************************)

C22_RoundTrip ==
    [][(last'.op = "read_message" /\ Connected(transport)) =>
          /\ \A m \in WireMessages : IsPrefix(Encode(m), transport.inbound) =>
                /\ last'.outcome = "ok"
                /\ last'.ret = m
                /\ transport'.inbound = SubSeq(transport.inbound, Len(Encode(m)) + 1,
                                               Len(transport.inbound))
          /\ transport.inbound = <<>> => (last'.outcome = "ok" /\ IsEndOfStream(last'.ret))]_vars

\* the request with empty params was read back, and the encoding of the response with
\* an empty result is what remains
C22_Witness ==
    /\ last.op = "read_message"
    /\ last.outcome = "ok"
    /\ last.ret = [jsonrpc |-> "2.0", method |-> "governor.now", id |-> 1, params |-> <<>>]
    /\ transport.inbound = Encode([jsonrpc |-> "2.0", id |-> 1, result |-> <<>>])

(***************************************************************************)
(* C23: the message list a chat turn sends is the turn history in order,   *)
(* ending with the new user turn, prefixed by one system turn built from   *)
(* the current template content and the current draft when a template is   *)
(* loaded and by nothing when none is; the system turn is not added to     *)
(* the turn history.                                                       *)
(* The handler tests the template content, not the template: a template    *)
(* whose text is empty is loaded and no system turn is sent.               *)
(***************************************************************************)
UserTurn(text) == [role |-> "user", content |-> text]

C23_ChatRequest ==
    [][last'.op = "handle_chat" =>
          /\ last'.arg.sent =
                (IF spec_template # None
                   THEN <<SystemTurn(spec_template_content, spec_draft)>> ELSE <<>>)
                \o Append(messages, UserTurn(last'.arg.text))
          /\ \A i \in 1..Len(messages') :
                (i > Len(messages)) => messages'[i].role # "system"]_vars

(***************************************************************************)
(* C24: load_template and clear_template change the template name and the  *)
(* template content and nothing else of the Session: mode, spec_locked,    *)
(* the draft, the remote session id and the turn history stay; after       *)
(* clear_template the name is None and the content empty.                  *)
(***************************************************************************)
C24_TemplateFrame ==
    [][last'.op \in {"load_template", "clear_template"} =>
          /\ UNCHANGED <<mode, spec_locked, spec_draft, governor_session_id, messages,
                         last_governor_now>>
          /\ last'.op = "load_template" =>
                (spec_template' = last'.arg[1] /\ spec_template_content' = last'.arg[2])
          /\ last'.op = "clear_template" =>
                (spec_template' = None /\ spec_template_content' = <<>>)]_vars

\* a template was cleared in a session that has an id, a draft, a lock and a history
C24_Witness ==
    /\ last.op = "clear_template"
    /\ spec_template = None
    /\ spec_draft # <<>>
    /\ spec_locked
    /\ governor_session_id # None
    /\ messages # <<>>

(***************************************************************************)
(* C25: a step of the engine (connect, write, read, yield, resolve, fail,  *)
(* and the daemon's frames arriving) changes no Session field; a Session   *)
(* field changes only in the orchestrator's step that follows a call       *)
(* which returned a result, and there it takes that result.                *)
(***************************************************************************)
EngineStep ==
    <<request_id, cx, conns, delivered, last_stream_result, pc, at, cur, outcome, yielded,
      readLog, assigned, written, closer>>'
        # <<request_id, cx, conns, delivered, last_stream_result, pc, at, cur, outcome, yielded,
            readLog, assigned, written, closer>>

C25_EngineLeavesSession ==
    [][/\ EngineStep => UNCHANGED sessionVars
       /\ (sessionVars' # sessionVars) =>
             /\ running = "poll"
             /\ pc["poll"] = "done"
             /\ outcome["poll"].type = "result"
             /\ last_governor_now' = outcome["poll"].detail[1]
             /\ UNCHANGED <<mode, spec_locked, spec_draft, spec_template, spec_template_content,
                            messages, governor_session_id>>]_vars

\* the poll's result is in the Session while a chat stream is being read
C25_Witness ==
    /\ last_governor_now = "r"
    /\ Streaming("main")
    /\ pc["main"] \in {"read", "waiting", "woken"}
    /\ yielded["main"] # <<>>

(***************************************************************************)
(* C26: an input whose trimmed, lower-cased text is "plan " followed by    *)
(* one of the aliases is classified PLAN_TEMPLATE with the alias as        *)
(* payload, and no other input is; every other input that starts with the  *)
(* word plan is classified PLAN with the whole trimmed input as payload.   *)
(***************************************************************************)
AfterPlan(text) == SubSeq(text, Len(Literal.plan) + 2, Len(text))
StartsWithWord(word, text) ==
    IF ~IsPrefix(word, text) THEN FALSE
    ELSE IF Len(text) = Len(word) THEN TRUE
    ELSE ~IsWordChar(text[Len(word) + 1])

RECURSIVE FirstWord(_)
FirstWord(text) ==
    IF text = <<>> THEN <<>>
    ELSE IF IsSpace(Head(text)) THEN <<>>
    ELSE <<Head(text)>> \o FirstWord(Tail(text))
\* text.split()
RECURSIVE Words(_)
Words(text) ==
    IF LStrip(text) = <<>> THEN <<>>
    ELSE <<FirstWord(LStrip(text))>>
         \o Words(SubSeq(LStrip(text), Len(FirstWord(LStrip(text))) + 1, Len(LStrip(text))))
LowerWords(text) == Words(Lower(text))

ReadsFrom(t) == IF pc[t] \in {"waiting", "woken"} THEN at[t] ELSE cx
\* the response to the call of t, or end of file, has reached its connection
AnswerDelivered(t) ==
    /\ InFlight(t)
    /\ ReadsFrom(t) # 0
    /\ \/ conns[ReadsFrom(t)].eof
       \/ \E i \in 1..Len(conns[ReadsFrom(t)].buffer) :
             IsResponseTo(conns[ReadsFrom(t)].buffer[i], cur[t].id)
\* the caller's next call fails before its request is written
NextCallFails(t) ==
    \/ ConnectFails(t)
    \/ WriteFails(t, "call", "governor.status")
    \/ WriteFails(t, "stream", "chat.stream")
Resolved(o) == o.type \in {"result", "end"}
Failed(o) == IsRemoteError(o) \/ o = ConnectionClosed

Carriers(log, method) == {i \in 1..Len(log) : HasFragment(log[i], method)}

C30_LazyStream ==
    [][\A t \in Tasks :
          (yielded'[t] # yielded[t] /\ yielded'[t] # <<>>) =>
             /\ Streaming(t) /\ cur'[t] = cur[t]
             /\ readLog'[t] # <<>>
             /\ readLog'[t] = Append(readLog[t], Final(readLog'[t]))
             /\ HasFragment(Final(readLog'[t]), cur[t].notification_method)
             /\ yielded'[t] = Append(yielded[t], Final(readLog'[t]).params.content)
             /\ Cardinality(Carriers(readLog'[t], cur[t].notification_method))
                   = Len(yielded'[t])]_vars

\* the second fragment of a stream was handed over with two frames delivered, the
\* later of them the notification that carried it
C30_Witness ==
    /\ Streaming("main")
    /\ Len(yielded["main"]) = 2
    /\ Len(readLog["main"]) >= 2
    /\ HasFragment(Final(readLog["main"]), cur["main"].notification_method)
    /\ cx # 0
    /\ conns[cx].buffer # <<>>

(***************************************************************************)
(* C31: a step of a streaming call that reads a message hands over a       *)
(* fragment exactly when the message is a notification of the filter's     *)
(* method with non-empty content, and then that content; a notification    *)
(* of another method, or without content, or with empty content, and a     *)
(* response to another id are read, hand over nothing and leave the        *)
(* stream running.                                                         *)
(***************************************************************************)
\* the step reads one message for the call of task t
ReadsMessage(t) ==
    /\ cur'[t] = cur[t]
    /\ Len(readLog'[t]) = Len(readLog[t]) + 1
    /\ ~IsEndOfStream(Final(readLog'[t]))

C31_StreamFilter ==
    [][\A t \in Tasks :
          (Streaming(t) /\ ReadsMessage(t)) =>
             LET m == Final(readLog'[t])
                 method == cur[t].notification_method
             IN  /\ yielded'[t] = IF HasFragment(m, method)
                                    THEN Append(yielded[t], m.params.content)
                                    ELSE yielded[t]
                 /\ (IsNotification(m) \/ ~IsResponseTo(m, cur[t].id)) =>
                       /\ pc'[t] = "read"
                       /\ outcome'[t] = NoOutcome]_vars

\* a running stream has read a response to another call's id, and before or after it
\* a notification that carries no fragment, and has handed over nothing
C31_Witness ==
    /\ Streaming("main")
    /\ pc["main"] = "read"
    /\ yielded["main"] = <<>>
    /\ \E i \in 1..Len(readLog["main"]) :
          "id" \in DOMAIN readLog["main"][i] /\ readLog["main"][i].id # cur["main"].id
    /\ \E i \in 1..Len(readLog["main"]) :
          IsNotification(readLog["main"][i])

(***************************************************************************)
(* C36: a message leaves a connection only by being read by a call, one    *)
(* message a step and the oldest first; so the step that ends a call on    *)
(* its response takes that response alone, what was delivered behind it    *)
(* stays buffered while no call is in flight, and the first read of the    *)
(* next call on that connection returns the oldest of it.                  *)
(***************************************************************************)
\* the step leaves the buffer of connection c alone or appends one delivered frame
Kept(c) ==
    \/ conns'[c].buffer = conns[c].buffer
    \/ /\ Len(conns'[c].buffer) = Len(conns[c].buffer) + 1
       /\ SubSeq(conns'[c].buffer, 1, Len(conns[c].buffer)) = conns[c].buffer
\* the step takes the oldest frame of connection c, and a call reads it
TakenBy(c, t) ==
    /\ conns[c].buffer # <<>>
    /\ conns'[c].buffer = Tail(conns[c].buffer)
    /\ InFlight(t)
    /\ ReadsFrom(t) = c
    /\ readLog'[t] = Append(readLog[t], Head(conns[c].buffer))

C36_NothingBeyondTerminal ==
    [][/\ Len(conns') >= Len(conns)
       /\ \A c \in 1..Len(conns) : Kept(c) \/ \E t \in Tasks : TakenBy(c, t)
       /\ (\A t \in Tasks : ~InFlight(t)) => \A c \in 1..Len(conns) : Kept(c)]_vars

\* a call has ended on its response with a frame delivered behind it still buffered,
\* and the caller's next call has not begun
C36_Witness ==
    /\ pc["main"] = "done"
    /\ outcome["main"].type \in {"result", "end"}
    /\ cx # 0
    /\ conns[cx].buffer # <<>>
    /\ ~conns[cx].closing

(***************************************************************************)
(* C34: the lock-spec handler on an empty draft ends refused, leaves       *)
(* spec_locked and the rest of the session as they were and awaits no      *)
(* constraint submission; lock_spec itself on an empty draft sets          *)
(* spec_locked and returns the empty text.                                 *)
(***************************************************************************)
C34_EmptyDraftLock ==
    [][/\ (last'.op = "handle_lock_spec" /\ last' # last /\ spec_draft = <<>>) =>
             /\ last'.outcome = "refused"
             /\ last'.arg = None
             /\ UNCHANGED <<sessionVars, engineVars>>
       /\ (last'.op = "lock_spec" /\ last' # last /\ spec_draft = <<>>) =>
             /\ last'.outcome = "ok"
             /\ last'.ret = <<>>
             /\ spec_locked'
             /\ spec_draft' = <<>>]_vars

\* the handler has refused an unlocked empty draft
C34_Witness ==
    /\ last.op = "handle_lock_spec"
    /\ last.outcome = "refused"
    /\ spec_draft = <<>>
    /\ ~spec_locked

(***************************************************************************)
(* C32: a plan command leaves the draft as it was or puts the text given   *)
(* after the keyword and a newline behind it, and leaves it as it was      *)
(* when no text is given; a chat turn leaves it as it was or puts the      *)
(* reply and a newline behind it; no other step on the same Session        *)
(* changes the draft.  _handle_plan takes the whole line "plan" for the    *)
(* text: the draft becomes the old draft and "plan\n".                     *)
(***************************************************************************)
\* what follows the keyword of a plan command
PlanArgument(payload) ==
    IF IsPrefix(Literal.let_s_plan, Lower(payload))
      THEN LStrip(SubSeq(payload, Len(Literal.let_s_plan) + 1, Len(payload)))
    ELSE IF IsPrefix(Literal.lets_plan, Lower(payload))
      THEN LStrip(SubSeq(payload, Len(Literal.lets_plan) + 1, Len(payload)))
    ELSE LStrip(SubSeq(payload, Len(Literal.plan) + 1, Len(payload)))
\* the step puts a fresh Session in the place of the current one
Replaces ==
    \/ last'.op = "new_session" /\ last'.outcome = "ok"
    \/ last'.op = "handle_switch_session" /\ last'.outcome = "ok"
    \/ last'.op = "handle_delete_session" /\ last'.outcome = "deleted, replaced"

C32_DraftAppendOnly ==
    [][~Replaces =>
          /\ IsPrefix(spec_draft, spec_draft')
          /\ last'.op = "handle_plan" =>
                /\ spec_draft' \in {spec_draft,
                                    spec_draft \o PlanArgument(last'.arg) \o <<"\n">>}
                /\ PlanArgument(last'.arg) = <<>> => spec_draft' = spec_draft
          /\ last'.op = "handle_chat" =>
                spec_draft' \in {spec_draft, spec_draft \o last'.ret \o <<"\n">>}
          /\ last'.op \notin {"handle_plan", "handle_chat"} => spec_draft' = spec_draft]_vars

(***************************************************************************)
(* C33: a switch-session, new-session or delete-session step that puts a   *)
(* fresh Session in place leaves it in mode PLAN, unlocked, with an empty  *)
(* draft, no template and no governor status, under the id the daemon      *)
(* returned and with the turns the daemon returned (none for a created     *)
(* session); project name and backend type are those of the Session it     *)
(* replaces.                                                               *)
(***************************************************************************)
C33_SessionReplaced ==
    [][Replaces =>
          /\ mode' = PLAN
          /\ ~spec_locked'
          /\ spec_draft' = <<>>
          /\ spec_template' = None
          /\ spec_template_content' = <<>>
          /\ last_governor_now' = None
          /\ governor_session_id' = last'.ret
          /\ last'.op # "handle_switch_session" => messages' = <<>>
          /\ last'.op = "handle_switch_session" => messages' \in Histories
          /\ project_name' = project_name
          /\ backend_type' = backend_type]_vars

\* a switch has put a fresh Session in place, under another id than the one mount
\* resumed, with the turns the daemon returned and the backend type mount had set
C33_Witness ==
    /\ last.op = "handle_switch_session"
    /\ last.outcome = "ok"
    /\ governor_session_id = "s2"
    /\ backend_type = "anthropic"
    /\ project_name = ProjectName
    /\ messages # <<>>

(***************************************************************************)
(* C35: while spec_locked stays true the draft does not change.            *)
(* _handle_plan does not look at spec_locked: a plan command after         *)
(* lock-spec adds to the locked draft.                                     *)
(***************************************************************************)
C35_LockedDraftFixed ==
    [][(spec_locked /\ spec_locked') => spec_draft' = spec_draft]_vars

(***************************************************************************)
(* C37: a switch-session command whose reference resolves to no session    *)
(* id, or whose get_session raises, leaves every field of the Session as   *)
(* it was.                                                                 *)
(***************************************************************************)
C37_FailedSwitchKeepsSession ==
    [][(last'.op = "handle_switch_session" /\ last'.outcome \in {"unresolved", "raised"}) =>
          UNCHANGED sessionVars]_vars

\* get_session has raised for a reference that resolved, with a locked draft in place
C37_Witness ==
    /\ last.op = "handle_switch_session"
    /\ last.outcome = "raised"
    /\ last.ret # "other"
    /\ spec_locked
    /\ spec_draft # <<>>
    /\ governor_session_id = "s1"

(***************************************************************************)
(* C38: after a delete-session step in which the daemon deleted the        *)
(* session the Session is on, the Session is on another id.  When          *)
(* create_session raises, the handler's except clause leaves the Session   *)
(* on the deleted id.                                                      *)
(***************************************************************************)
C38_DeletedIdDropped ==
    [][(/\ last'.op = "handle_delete_session"
        /\ last'.outcome \in {"deleted", "deleted, create raised", "deleted, replaced"}
        /\ resolve_session_id(last'.arg) = governor_session_id) =>
          governor_session_id' # governor_session_id]_vars

(***************************************************************************)
(* C40: a plan-template command on a non-empty draft loads nothing and     *)
(* leaves its template pending; with a template pending, the next input    *)
(* line that is not blank is taken as the answer and not classified, loads *)
(* the pending template when it is yes or y in any case and the template   *)
(* file can be read, and leaves nothing pending; a blank line is ignored   *)
(* and leaves the template pending; on an empty draft the command loads    *)
(* the template at once when its file can be read, and leaves nothing      *)
(* pending.                                                                *)
(***************************************************************************)
\* the step handles an input line
InputStep == last'.op \notin {"on_mount", "new_session"}
\* the step handles a plan-template command for a template there is
PlanTemplateStep ==
    /\ last'.op = "handle_plan_template"
    /\ TemplateKey(Lower(last'.arg)) # None
TemplateLoaded(k) ==
    /\ spec_template' = Canonical(k)
    /\ spec_template_content' \in {f.content : f \in {g \in TemplateFiles : g.found}}

TurnEnds == Awaiting /\ last'.outcome # "awaiting"
StreamFailed == outcome["main"].type \in {"ConnectionError", "RuntimeError", "OSError",
                                          "AttributeError"}

C39_FailedTurn ==
    [][/\ (Awaiting /\ ~TurnEnds) => (messages' = messages /\ spec_draft' = spec_draft)
       /\ (TurnEnds /\ StreamFailed) =>
             /\ messages' = messages
             /\ spec_draft' = spec_draft
             /\ messages[Len(messages)] = [role |-> "user", content |-> last.arg.text]
       /\ (TurnEnds /\ ~StreamFailed) =>
             /\ Len(messages') = Len(messages) + 1
             /\ SubSeq(messages', 1, Len(messages)) = messages
             /\ messages'[Len(messages')].role = "assistant"
             /\ Len(messages'[Len(messages')].content) = Len(yielded["main"])
             /\ \A i \in 1..Len(yielded["main"]) :
                   messages'[Len(messages')].content[i] = yielded["main"][i]]_vars

\* a turn has ended on the daemon's error response after the stream had yielded a
\* fragment: the user turn is the last of the history
C39_Witness ==
    /\ last.op = "handle_chat"
    /\ last.outcome = "raised"
    /\ outcome["main"].type = "RuntimeError"
    /\ yielded["main"] # <<>>
    /\ messages # <<>>

====
